---- MODULE Spec2Model ----
(***************************************************************************)
(* Order execution engine: the BullMQ-backed scheduler                     *)
(* (OrderQueueService), the pipeline orchestrator (OrderExecutionService), *)
(* the venue router (MockDexRouter), the order store (OrderModel) and the  *)
(* status publication path (WebSocketManager.sendUpdate).                  *)
(*                                                                         *)
(* One job record per queue.add that created a job; the pipeline position  *)
(* of a job is the await it is suspended at.  Time is counted in ticks.    *)
(*                                                                         *)
(* Spec        the engine with every subscriber socket open                *)
(* SpecWs      the engine with a subscriber that may close, break or go    *)
(*             away                                                        *)
(* SpecRouter  selectBestDex, executeSwap, getAllQuotes and validateOrder, *)
(*             each called on its own                                      *)
(* SpecManager a WebSocketManager driven directly, with two sockets        *)
(* SpecRoute   one POST /execute request, from its body on, then the       *)
(*             engine (SpecRouteFair: with the socket's 'close' event)     *)
(* SpecPause   the engine with pause() and resume()                        *)
(* SpecClose   the engine with close()                                     *)
(*             (SpecPauseFair, SpecCloseFair: with the event loop's        *)
(*             progress)                                                   *)
(***************************************************************************)
EXTENDS Integers, Sequences, FiniteSets, TLC

\* ---------------------------------------------------------------- bounds
MaxResubmits == 1
MaxStoreFaults == 2
MaxConcurrency == 2
orderRateLimit == 2
limiterDuration == 2
retryBackoffTicks == 1
MaxQuotes == 3
MaxAmountOut == 3
MaxRouterCalls == 2
MaxTransmitted == 2
DefaultRetryMaxAttempts == 3

\* order ids (uuidv4 strings in the route)
OrderIds == {"o1", "o2"}

\* OrderStatus (types/order.types)
PENDING == "pending"
ROUTING == "routing"
BUILDING == "building"
SUBMITTED == "submitted"
CONFIRMED == "confirmed"
FAILED == "failed"

\* DexProvider (types/order.types)
RAYDIUM == "raydium"
METEORA == "meteora"

\* prices a venue may quote and the slippage a settlement may realize (per mille)
RaydiumPrices == {100, 101}
MeteoraPrices == {100}
SwapSlippages == {5}

VARIABLES
  retryMaxAttempts,     \* config.orderProcessing.retryMaxAttempts
  maxConcurrentOrders,  \* config.orderProcessing.maxConcurrentOrders
  jobs,                 \* the queue's jobs, in creation order
  waitQ,                \* the wait list: indexes into jobs, head first
  limiterCount,         \* BullMQ rate-limiter key: jobs started in the open window
  limiterTTL,           \* ticks until the rate-limiter key expires (0: no key)
  dbStatus,             \* orders.status per order id ("none": no row)
  dbRetryCount,         \* orders.retry_count per order id
  storeFaults,          \* number of store calls that have failed so far
  resubmits,            \* order ids addOrder was called for again while their job was held
  attemptEvents,        \* status updates handed to sendUpdate in the current attempt
  terminalEvents,       \* every CONFIRMED / FAILED update handed to sendUpdate
  execCount,            \* executeOrder invocations per order id
  venueFailures,        \* executeOrder invocations in which the venue failed
  recentStarts,         \* attempts started in each of the last limiterDuration ticks
  connections,          \* wsManager.connections: the socket registered per order id
  delivered,            \* messages each order's client has received on its socket
                        \* since the current attempt started (before the first
                        \* attempt: since the order was created)
  routerQuotes,         \* the quote list of a direct call of selectBestDex
  routerBest,           \* what the latest such call returned (NoQuote: not called yet)
  routerCalls,          \* how many times selectBestDex was called on that list
  swapCall,             \* the arguments and random draws of a direct call of executeSwap
  swapReturn,           \* how that call ended (NotCalled: not called yet)
  quotesCall,           \* a direct call of getAllQuotes: its arguments, the promises
                        \* of its two venue requests and the promise it returned
  quotesReturn,         \* the list that call resolved with (<<>>: none)
  wsConnections,        \* WebSocketManager.connections as a Map: its entries
                        \* [orderId, ws] in insertion order
  wsReadyState,         \* readyState of each socket
  wsHandlers,           \* per socket, the order ids of the 'close' / 'error'
                        \* handlers register has attached to it
  wsInbox,              \* what each socket's send has transmitted
  wsLatest,             \* per order id, the socket of the latest register call
  wsLastCall,           \* the latest manager call or socket event
  validateCall,         \* the order of a direct call of validateOrder
  validateReturn,       \* what that call returned
  execRequest,          \* a POST /execute request: its body and how far it got
  execSocket,           \* that request's socket: what was sent on it, whether
                        \* the route closed it
  queuePaused,          \* queue.pause() is in effect
  closeCalled,          \* OrderQueueService.close() was called
  closed                \* what close() has closed so far, in order

vars == <<retryMaxAttempts, maxConcurrentOrders, jobs, waitQ, limiterCount,
          limiterTTL, dbStatus, dbRetryCount, storeFaults, resubmits,
          attemptEvents, terminalEvents, execCount, venueFailures, recentStarts,
          connections, delivered, routerQuotes, routerBest, routerCalls,
          swapCall, swapReturn, quotesCall, quotesReturn,
          wsConnections, wsReadyState, wsHandlers, wsInbox, wsLatest, wsLastCall,
          validateCall, validateReturn, execRequest, execSocket,
          queuePaused, closeCalled, closed>>

cfgVars == <<retryMaxAttempts, maxConcurrentOrders>>

routerVars == <<routerQuotes, routerBest, routerCalls>>

swapVars == <<swapCall, swapReturn>>

quotesVars == <<quotesCall, quotesReturn>>

validateVars == <<validateCall, validateReturn>>

\* the variables of the direct calls
callVars == <<routerVars, swapVars, quotesVars, validateVars>>

\* the variables of a WebSocketManager driven directly
managerVars == <<wsConnections, wsReadyState, wsHandlers, wsInbox, wsLatest,
                 wsLastCall>>

\* the variables of a POST /execute request handled from its body on
routeVars == <<execRequest, execSocket>>

\* the variables of pause(), resume() and close()
lifecycleVars == <<queuePaused, closeCalled, closed>>

\* the variables outside the engine
sideVars == <<callVars, managerVars, routeVars, lifecycleVars>>

\* the variables of the queue, the worker, the store and the pipeline
engineVars == <<jobs, waitQ, limiterCount, limiterTTL, dbStatus, dbRetryCount,
                storeFaults, resubmits, attemptEvents, terminalEvents,
                execCount, venueFailures, recentStarts, connections, delivered>>

\* --------------------------------------------------------------- router
\* DexQuote; fee in per mille, amountOut = price * (1 - fee) scaled by 1000;
\* timestamp is the executeOrder invocation the quote was fetched in
Quote(dex, price, fee, timestamp) ==
  [dex |-> dex, price |-> price, fee |-> fee, amountOut |-> price * (1000 - fee),
   timestamp |-> timestamp]

\* the value of a quote variable before it is assigned
NoQuote == [dex |-> "none", price |-> 0, fee |-> 0, amountOut |-> 0, timestamp |-> 0]

\* getRaydiumQuote: fee 0.003
GetRaydiumQuote(price, timestamp) == Quote(RAYDIUM, price, 3, timestamp)

\* getMeteorQuote: fee 0.002
GetMeteorQuote(price, timestamp) == Quote(METEORA, price, 2, timestamp)

\* getAllQuotes: [raydiumQuote, meteoraQuote]
GetAllQuotes(raydiumPrice, meteoraPrice, timestamp) ==
  <<GetRaydiumQuote(raydiumPrice, timestamp), GetMeteorQuote(meteoraPrice, timestamp)>>

\* quotes.reduce((best, current) => current.amountOut > best.amountOut ? current : best)
\* from position i on, with accumulator best
\* a reduce whose callback lets a later quote of equal amountOut replace the
\* accumulator
RECURSIVE ReduceLast(_, _, _)
ReduceLast(quotes, i, best) ==
  IF i > Len(quotes) THEN best
  ELSE ReduceLast(quotes, i + 1,
                  IF quotes[i].amountOut >= best.amountOut THEN quotes[i] ELSE best)

RECURSIVE Reduce(_, _, _)
Reduce(quotes, i, best) ==
  IF i > Len(quotes) THEN best
  ELSE Reduce(quotes, i + 1,
              IF quotes[i].amountOut > best.amountOut THEN quotes[i] ELSE best)

\* mutant: the first quote is returned whatever the others offer
SelectFirstDex(quotes) == quotes[1]

\* selectBestDex (reduce without an initial value: the first element seeds it)
SelectBestDex(quotes) == Reduce(quotes, 2, quotes[1])

\* the value of executeOrder's `result` before executeSwap returns
NoResult == [txHash |-> "", executedPrice |-> 0, amountOut |-> 0, dex |-> "none"]

\* executeSwap's ExecutionResult: executedPrice = price * (1 - slippage), scaled
\* by 1000, amountOut = executedPrice * (1 - fee), scaled by 1000 again, the
\* venue of the quote and a generated 64-character txHash
ExecutionResult(selectedQuote, slippage) ==
  [txHash |-> "txhash",
   executedPrice |-> selectedQuote.price * (1000 - slippage),
   amountOut |-> selectedQuote.price * (1000 - slippage) * (1000 - selectedQuote.fee),
   dex |-> selectedQuote.dex]

\* OrderStatusUpdate.data with every optional field absent
\* the messages of the errors executeSwap throws
SlippageExceeded == "Slippage tolerance exceeded"
NetworkCongestion == "Transaction simulation failed: Network congestion"

\* mutant: a settlement that may slip by up to 1.2%
SwapSlippageRangeWide == 0..12

\* Math.random() * 0.01, per mille: 0 <= slippage < 10
SwapSlippageRange == 0..9

\* an executeSwap that never finds the tolerance exceeded
ActualSlippageZero(selectedQuote, executedPrice) == 0

\* (selectedQuote.price - executedPrice) / selectedQuote.price, per mille
\* (executedPrice carries the factor 1000 of ExecutionResult)
ActualSlippage(selectedQuote, executedPrice) ==
  (selectedQuote.price * 1000 - executedPrice) \div selectedQuote.price

NoCall == [called |-> FALSE]
NotCalled == [error |-> "not called", result |-> NoResult]

\* mockDexRouter.executeSwap(order, selectedQuote) with its two random
\* draws: the slippage and whether the congestion roll is below 0.05
ExecuteSwap(order, selectedQuote, slippage, congestion) ==
  LET result == ExecutionResult(selectedQuote, slippage)
  IN  IF ActualSlippage(selectedQuote, result.executedPrice) > order.slippage
        THEN [error |-> SlippageExceeded, result |-> NoResult]
      ELSE IF congestion
        THEN [error |-> NetworkCongestion, result |-> NoResult]
      ELSE [error |-> "", result |-> result]

NoData == [selectedDex |-> "none", quotes |-> <<>>, txHash |-> "",
           executedPrice |-> 0, errorAttempts |-> 0]

\* ------------------------------------------------------------- helpers
JobIdx == DOMAIN jobs

JobsOf(id) == {j \in JobIdx : jobs[j].orderId = id}

ActiveJobs == {j \in JobIdx : jobs[j].state = "active"}

\* the job is queued or running (wait list, active, or delayed for a retry)
InScheduler(j) == jobs[j].state \in {"waiting", "active", "delayed"}

\* the job has left the scheduler for good
JobDone(j) == jobs[j].state \in {"completed", "failed"}

\* getMetrics: getWaitingCount, getActiveCount, getCompletedCount and
\* getFailedCount of the queue
GetMetrics ==
  [waiting   |-> Cardinality({j \in JobIdx : jobs[j].state = "waiting"}),
   active    |-> Cardinality(ActiveJobs),
   completed |-> Cardinality({j \in JobIdx : jobs[j].state = "completed"}),
   failed    |-> Cardinality({j \in JobIdx : jobs[j].state = "failed"})]

RECURSIVE SumSeq(_)
SumSeq(s) == IF s = <<>> THEN 0 ELSE Head(s) + SumSeq(Tail(s))

Zeros(n) == [i \in 1..n |-> 0]

TypeOK ==
  /\ retryMaxAttempts \in 1..DefaultRetryMaxAttempts
  /\ maxConcurrentOrders \in 1..MaxConcurrency
  /\ limiterCount \in 0..orderRateLimit
  /\ limiterTTL \in 0..limiterDuration
  /\ storeFaults \in 0..MaxStoreFaults
  /\ queuePaused \in BOOLEAN
  /\ closeCalled \in BOOLEAN
  /\ closed \in Seq({"worker", "queue", "queueEvents", "connection"})

\* ------------------------------------------ WebSocketManager on its own
Sockets == {"ws1", "ws2"}
NoSocket == "none"

\* Map.prototype.get: the value of the entry with this key
MapGet(map, key) ==
  IF \E i \in DOMAIN map : map[i].orderId = key
  THEN map[CHOOSE i \in DOMAIN map : map[i].orderId = key].ws
  ELSE NoSocket

\* a set that adds an entry even when the key is present
MapSetAppend(map, key, value) == Append(map, [orderId |-> key, ws |-> value])

\* Map.prototype.set: the entry of a present key keeps its place and gets the
\* new value; an absent key is appended
MapSet(map, key, value) ==
  IF \E i \in DOMAIN map : map[i].orderId = key
  THEN [i \in DOMAIN map |-> IF map[i].orderId = key
                             THEN [orderId |-> key, ws |-> value] ELSE map[i]]
  ELSE Append(map, [orderId |-> key, ws |-> value])

\* a delete that also removes the other entries of the same socket
MapDeleteSocket(map, key) ==
  SelectSeq(map, LAMBDA e : e.ws # MapGet(map, key))

\* Map.prototype.delete
MapDelete(map, key) == SelectSeq(map, LAMBDA e : e.orderId # key)

\* the keys of the Map
MapKeys(map) == {map[i].orderId : i \in DOMAIN map}

\* WebSocketManager.getConnectionCount(): connections.size
GetConnectionCount == Len(wsConnections)

\* new WebSocketManager(), and sockets that are open
InitManager ==
  /\ wsConnections = <<>>
  /\ wsReadyState = [ws \in Sockets |-> "OPEN"]
  /\ wsHandlers = [ws \in Sockets |-> {}]
  /\ wsInbox = [ws \in Sockets |-> <<>>]
  /\ wsLatest = [id \in OrderIds |-> NoSocket]
  /\ wsLastCall = [op |-> "none", orderId |-> "", ws |-> NoSocket, raised |-> FALSE]

\* ------------------------------------------------------------ validation
\* a field of a request body: absent, or present with its value
Undefined == [defined |-> FALSE, text |-> "", length |-> 0, value |-> 0]
Str(text, length) == [defined |-> TRUE, text |-> text, length |-> length, value |-> 0]
Num(value) == [defined |-> TRUE, text |-> "", length |-> 0, value |-> value]

\* a validateTokenAddress without the upper limit
ValidateTokenAddressAnyLength(address) == address.length > 0

\* mockDexRouter.validateTokenAddress(address)
ValidateTokenAddress(address) == address.length > 0 /\ address.length <= 44

\* mockDexRouter.validateSlippage(slippage), per mille
ValidateSlippage(slippage) == slippage >= 0 /\ slippage <= 500

\* !x of a string field: undefined or ''
NotString(field) == ~field.defined \/ field.length = 0

\* !x of a number field: undefined or 0
NotNumber(field) == ~field.defined \/ field.value = 0

\* if (condition) errors.push(message)
Push(errors, condition, message) ==
  IF condition THEN Append(errors, message) ELSE errors

\* orderExecutionService.validateOrder(order)
ValidateOrder(order) ==
  LET e1 == Push(<<>>, NotString(order.tokenIn)
                         \/ ~ValidateTokenAddress(order.tokenIn),
                 "Invalid tokenIn address")
      e2 == Push(e1, NotString(order.tokenOut)
                       \/ ~ValidateTokenAddress(order.tokenOut),
                 "Invalid tokenOut address")
      e3 == Push(e2, order.tokenIn = order.tokenOut,
                 "tokenIn and tokenOut must be different")
      e4 == Push(e3, NotNumber(order.amountIn) \/ order.amountIn.value <= 0,
                 "amountIn must be greater than 0")
      e5 == Push(e4, order.slippage.defined
                       /\ ~ValidateSlippage(order.slippage.value),
                 "Slippage must be between 0 and 0.5 (0-50%)")
  IN  [valid |-> Len(e5) = 0, errors |-> e5]

OrderTypes == {"market", "limit", "sniper"}

\* a createOrderSchema that lets every body through
SchemaAcceptsAll(body) == TRUE

\* createOrderSchema.safeParse(body).success
SchemaAccepts(body) ==
  /\ body.type \in OrderTypes
  /\ body.tokenIn.defined /\ body.tokenIn.length >= 1 /\ body.tokenIn.length <= 44
  /\ body.tokenOut.defined /\ body.tokenOut.length >= 1 /\ body.tokenOut.length <= 44
  /\ body.amountIn.defined /\ body.amountIn.value > 0
  /\ body.slippage.defined => (body.slippage.value >= 0 /\ body.slippage.value <= 500)

\* createOrderSchema.safeParse(body): on success the data, slippage
\* defaulting to 0.01
CreateOrderSchema(body) ==
  [success |-> SchemaAccepts(body),
   data |-> [body EXCEPT !.slippage = IF @.defined THEN @ ELSE Num(10)]]

NoReply == [sent |-> <<>>, closed |-> FALSE]

\* no request is being handled from its body
NoExecRequest ==
  /\ execRequest = [state |-> "none"]
  /\ execSocket = NoReply

\* no direct call is under way
InitCalls ==
  /\ routerQuotes = <<>>
  /\ routerBest = NoQuote
  /\ routerCalls = 0
  /\ swapCall = NoCall
  /\ swapReturn = NotCalled
  /\ quotesCall = NoCall
  /\ quotesReturn = <<>>
  /\ validateCall = NoCall
  /\ validateReturn = NoCall

\* the engine after construction: nothing admitted yet, no socket registered
InitEngine ==
  /\ InitManager
  /\ queuePaused = FALSE
  /\ closeCalled = FALSE
  /\ closed = <<>>
  /\ jobs = <<>>
  /\ waitQ = <<>>
  /\ limiterCount = 0
  /\ limiterTTL = 0
  /\ dbStatus = [id \in OrderIds |-> "none"]
  /\ dbRetryCount = [id \in OrderIds |-> 0]
  /\ storeFaults = 0
  /\ resubmits = {}
  /\ attemptEvents = [id \in OrderIds |-> <<>>]
  /\ terminalEvents = [id \in OrderIds |-> <<>>]
  /\ execCount = [id \in OrderIds |-> 0]
  /\ venueFailures = [id \in OrderIds |-> 0]
  /\ recentStarts = Zeros(limiterDuration)
  /\ connections = [id \in OrderIds |-> "none"]
  /\ delivered = [id \in OrderIds |-> <<>>]

Init ==
  /\ retryMaxAttempts \in 1..DefaultRetryMaxAttempts
  /\ maxConcurrentOrders \in 1..MaxConcurrency
  /\ InitEngine
  /\ InitCalls
  /\ NoExecRequest

\* ------------------------------------------------------------ scheduler
\* mutant: queue.add without the jobId option creates a job on every call
DuplicateJobIdNever(id) == FALSE

\* queue.add(..., {jobId: order.orderId}): BullMQ creates no job when one with
\* the same jobId is still held by the queue (in any state).
DuplicateJobId(id) == JobsOf(id) # {}

\* Job<Order>: data.retryCount is the value serialized at admission and is
\* never written back; attemptsMade counts the attempts that have ended.
\* quotes, bestQuote and result are the locals of the running executeOrder;
\* inputs lists what the store and the venues answered in the latest attempt.
NewJob(id) ==
  [orderId |-> id, state |-> "waiting", pc |-> "idle", attemptsMade |-> 0,
   retryCount |-> 0, delay |-> 0, quotes |-> <<>>, bestQuote |-> NoQuote,
   result |-> NoResult, inputs |-> <<>>]

\* mutant: queue.add with the job option lifo, the new job goes to the head
QueueAddLifo(id) ==
  IF DuplicateJobId(id)
  THEN UNCHANGED <<jobs, waitQ>>
  ELSE /\ jobs' = Append(jobs, NewJob(id))
       /\ waitQ' = <<Len(jobs) + 1>> \o waitQ

\* queue.add('order-<id>', order, {jobId: order.orderId}): no second job for a
\* jobId the queue holds; a new job goes to the tail of the wait list
QueueAdd(id) ==
  IF DuplicateJobId(id)
  THEN UNCHANGED <<jobs, waitQ>>
  ELSE /\ jobs' = Append(jobs, NewJob(id))
       /\ waitQ' = Append(waitQ, Len(jobs) + 1)

\* the route's initial response {orderId, message, status: PENDING}; it is not
\* an OrderStatusUpdate and belongs to no attempt
CreatedMessage == [status |-> PENDING, attempt |-> 0, data |-> NoData]

\* POST /execute after validation: orderModel.create, wsManager.register, the
\* initial response, then orderQueueService.addOrder
Admit(id) ==
  /\ dbStatus[id] = "none"
  /\ dbStatus' = [dbStatus EXCEPT ![id] = PENDING]
  /\ connections' = [connections EXCEPT ![id] = "open"]
  /\ delivered' = [delivered EXCEPT ![id] = Append(@, CreatedMessage)]
  /\ QueueAdd(id)
  /\ UNCHANGED <<cfgVars, lifecycleVars, callVars, managerVars, resubmits, limiterCount, limiterTTL, dbRetryCount, storeFaults,
                 attemptEvents, terminalEvents, execCount, venueFailures,
                 recentStarts>>

\* POST /execute with a body that passes createOrderSchema and validateOrder
PostExecute(id) ==
  /\ Admit(id)
  /\ UNCHANGED routeVars

\* OrderQueueService.addOrder called again with the id of an order whose job is
\* still queued or running
AddOrder(id) ==
  /\ \E j \in JobsOf(id) : InScheduler(j)
  /\ id \notin resubmits
  /\ Cardinality(resubmits) < MaxResubmits
  /\ resubmits' = resubmits \cup {id}
  /\ QueueAdd(id)
  /\ UNCHANGED <<cfgVars, sideVars, limiterCount, limiterTTL, dbStatus, dbRetryCount,
                 storeFaults, attemptEvents, terminalEvents, execCount,
                 venueFailures, recentStarts, connections, delivered>>

\* mutant: the worker fetches jobs without a concurrency limit
WorkerSlotAlwaysFree == TRUE

\* Worker option concurrency: a job is fetched only while fewer than
\* maxConcurrentOrders processors are running.
WorkerSlotFree == Cardinality(ActiveJobs) < maxConcurrentOrders

\* mutant: the worker has no limiter
LimiterAlwaysAllows == TRUE

\* Worker option limiter {max, duration}: BullMQ counts the jobs moved to active
\* in a key that expires `duration` after the first of them.
LimiterAllows == limiterCount < orderRateLimit

\* mutant: a worker that goes on fetching jobs from a paused queue
WorkerFetchesWhenPaused == ~closeCalled

\* The worker fetches a job only while the queue is not paused (queue.pause())
\* and the worker is not closing (worker.close()).
WorkerFetches == ~queuePaused /\ ~closeCalled

\* The worker moves the head of the wait list to active and calls processOrder,
\* which calls executeOrder.
StartJob(j) ==
  /\ waitQ # <<>>
  /\ j = Head(waitQ)
  /\ WorkerFetches
  /\ WorkerSlotFree
  /\ LimiterAllows
  /\ waitQ' = Tail(waitQ)
  /\ jobs' = [jobs EXCEPT ![j].state = "active", ![j].pc = "PENDING",
                          ![j].quotes = <<>>, ![j].bestQuote = NoQuote,
                          ![j].result = NoResult, ![j].inputs = <<>>]
  /\ limiterCount' = limiterCount + 1
  /\ limiterTTL' = IF limiterCount = 0 THEN limiterDuration ELSE limiterTTL
  /\ recentStarts' = [recentStarts EXCEPT ![limiterDuration] = @ + 1]
  /\ execCount' = [execCount EXCEPT ![jobs[j].orderId] = @ + 1]
  /\ attemptEvents' = [attemptEvents EXCEPT ![jobs[j].orderId] = <<>>]
  /\ delivered' = [delivered EXCEPT ![jobs[j].orderId] = <<>>]
  /\ UNCHANGED <<cfgVars, sideVars, dbStatus, dbRetryCount, storeFaults, resubmits,
                 terminalEvents, venueFailures, connections>>

\* mutant: backoff {type: 'fixed'}
BackoffDelayFixed(attemptsMade) == retryBackoffTicks

\* backoff {type: 'exponential', delay: retryBackoffMs}
BackoffDelay(attemptsMade) == retryBackoffTicks * (2 ^ attemptsMade)

\* A delayed job whose backoff has elapsed goes back to the wait list.
PromoteDelayed(j) ==
  /\ jobs[j].state = "delayed"
  /\ jobs[j].delay = 0
  /\ jobs' = [jobs EXCEPT ![j].state = "waiting"]
  /\ waitQ' = Append(waitQ, j)
  /\ UNCHANGED <<cfgVars, sideVars, limiterCount, limiterTTL, dbStatus, dbRetryCount,
                 storeFaults, resubmits, attemptEvents, terminalEvents, execCount,
                 venueFailures, recentStarts, connections, delivered>>

\* One tick of time: the limiter key and the backoff delays run down. Time is
\* followed only while one of these timers is running.
Tick ==
  /\ \/ limiterTTL > 0
     \/ \E j \in JobIdx : jobs[j].state = "delayed" /\ jobs[j].delay > 0
  /\ limiterTTL' = IF limiterTTL > 0 THEN limiterTTL - 1 ELSE 0
  /\ limiterCount' = IF limiterTTL <= 1 THEN 0 ELSE limiterCount
  /\ jobs' = [j \in JobIdx |->
                IF jobs[j].state = "delayed" /\ jobs[j].delay > 0
                THEN [jobs[j] EXCEPT !.delay = @ - 1]
                ELSE jobs[j]]
  /\ recentStarts' = Append(Tail(recentStarts), 0)
  /\ UNCHANGED <<cfgVars, sideVars, waitQ, dbStatus, dbRetryCount, storeFaults, resubmits,
                 attemptEvents, terminalEvents, execCount, venueFailures,
                 connections, delivered>>

\* --------------------------------------------------------- orchestrator
IsTerminal(status) == status \in {CONFIRMED, FAILED}

\* mutant: an exception of ws.send leaves sendUpdate
SendThrowsWhenBroken(id) == connections[id] = "broken"

\* sendUpdate returns normally whatever the socket does: it skips a missing or
\* non-OPEN socket and catches what ws.send throws.
SendThrows(id) == FALSE

\* wsManager.sendUpdate(update): the update is handed to the status bus, which
\* sends it on the order's socket when that is registered and OPEN; a send that
\* throws delivers nothing.
SendUpdate(id, update) ==
  /\ attemptEvents' = [attemptEvents EXCEPT ![id] = Append(@, update)]
  /\ terminalEvents' = IF IsTerminal(update.status)
                       THEN [terminalEvents EXCEPT ![id] = Append(@, update)]
                       ELSE terminalEvents
  /\ delivered' = IF connections[id] = "open"
                  THEN [delivered EXCEPT ![id] = Append(@, update)]
                  ELSE delivered

\* A store call (database.query) fails: the error is rethrown to the caller.
StoreThrows ==
  /\ storeFaults < MaxStoreFaults
  /\ storeFaults' = storeFaults + 1

\* OrderExecutionService.updateStatus: orderModel.updateStatus, then sendUpdate.
\* ok = FALSE: the UPDATE fails, orderModel.updateStatus rethrows and nothing
\* is sent.
UpdateStatus(id, status, attempt, data, ok) ==
  IF ok
  THEN /\ dbStatus' = [dbStatus EXCEPT ![id] = status]
       /\ SendUpdate(id, [status |-> status, attempt |-> attempt, data |-> data])
       /\ UNCHANGED storeFaults
  ELSE /\ StoreThrows
       /\ UNCHANGED <<dbStatus, attemptEvents, terminalEvents, delivered>>

\* updateStatus returns (rather than throws) to its caller
UpdateStatusReturns(id, ok) == ok /\ ~SendThrows(id)

Attempt(j) == jobs[j].attemptsMade + 1

\* what a collaborator answered to a call of the attempt
StoreAnswer(ok) == [call |-> "store", ok |-> ok, a |-> 0, b |-> 0]

QuotesAnswer(raydiumPrice, meteoraPrice) ==
  [call |-> "quotes", ok |-> TRUE, a |-> raydiumPrice, b |-> meteoraPrice]

SwapAnswer(ok, slippage) == [call |-> "swap", ok |-> ok, a |-> slippage, b |-> 0]

\* processOrder rethrows without calling a collaborator
Rethrown == [call |-> "rethrow", ok |-> FALSE, a |-> 0, b |-> 0]

\* processOrder throws: the worker counts the attempt and either delays the job
\* for its backoff or, with defaultJobOptions.attempts used up, fails it.
MoveToFailed(j) ==
  [jobs EXCEPT
             ![j].attemptsMade = @ + 1,
             ![j].pc = "idle",
             ![j].state = IF jobs[j].attemptsMade + 1 < retryMaxAttempts
                          THEN "delayed" ELSE "failed",
             ![j].delay = IF jobs[j].attemptsMade + 1 < retryMaxAttempts
                          THEN BackoffDelay(jobs[j].attemptsMade) ELSE 0]

\* One `await this.updateStatus(...)` of executeOrder's try block: on success
\* the pipeline moves on to `next`, on a throw control enters the catch.
Stage(j, at, status, data, next) ==
  /\ jobs[j].state = "active"
  /\ jobs[j].pc = at
  /\ \E ok \in BOOLEAN :
       /\ UpdateStatus(jobs[j].orderId, status, Attempt(j), data, ok)
       /\ jobs' = [jobs EXCEPT
                     ![j].pc = IF UpdateStatusReturns(jobs[j].orderId, ok)
                               THEN next ELSE "CATCH",
                     ![j].inputs = Append(@, StoreAnswer(ok))]
  /\ UNCHANGED <<cfgVars, sideVars, waitQ, limiterCount, limiterTTL, dbRetryCount,
                 resubmits, execCount, venueFailures, recentStarts, connections>>

\* Step 1: updateStatus(PENDING)
StepPending(j) == Stage(j, "PENDING", PENDING, NoData, "ROUTING")

\* Step 2: updateStatus(ROUTING), before the quotes are requested
StepRouting(j) == Stage(j, "ROUTING", ROUTING, NoData, "QUOTES")

\* mutant: the quotes of the first attempt are kept for the retries
QuoteStampFirst(j) == 1

\* the executeOrder invocation a quote request is made in
QuoteStamp(j) == execCount[jobs[j].orderId]

\* getAllQuotes, saveQuotes (never throws) and selectBestDex
StepQuotes(j) ==
  /\ jobs[j].state = "active"
  /\ jobs[j].pc = "QUOTES"
  /\ \E raydiumPrice \in RaydiumPrices, meteoraPrice \in MeteoraPrices :
       LET quotes == GetAllQuotes(raydiumPrice, meteoraPrice, QuoteStamp(j)) IN
         jobs' = [jobs EXCEPT ![j].pc = "ROUTED",
                              ![j].quotes = quotes,
                              ![j].bestQuote = SelectBestDex(quotes),
                              ![j].inputs = Append(@, QuotesAnswer(raydiumPrice,
                                                                   meteoraPrice))]
  /\ UNCHANGED <<cfgVars, sideVars, waitQ, limiterCount, limiterTTL, dbStatus,
                 dbRetryCount, storeFaults, resubmits, attemptEvents,
                 terminalEvents, execCount, venueFailures, recentStarts,
                 connections, delivered>>

\* updateStatus(ROUTING, {selectedDex, quotes})
StepRouted(j) ==
  Stage(j, "ROUTED", ROUTING,
        [NoData EXCEPT !.selectedDex = jobs[j].bestQuote.dex,
                       !.quotes = jobs[j].quotes],
        "BUILDING")

\* mutant: the building step publishes SUBMITTED instead of BUILDING
StepBuildingAsSubmitted(j) ==
  Stage(j, "BUILDING", SUBMITTED,
        [NoData EXCEPT !.selectedDex = jobs[j].bestQuote.dex], "SUBMITTED")

\* Step 3: updateStatus(BUILDING, {selectedDex}), then sleep(500)
StepBuilding(j) ==
  Stage(j, "BUILDING", BUILDING,
        [NoData EXCEPT !.selectedDex = jobs[j].bestQuote.dex], "SUBMITTED")

\* mutant: SUBMITTED names the venue of the first quote of the list
StepSubmittedFirstQuote(j) ==
  Stage(j, "SUBMITTED", SUBMITTED,
        [NoData EXCEPT !.selectedDex = jobs[j].quotes[1].dex], "SWAP")

\* Step 4: updateStatus(SUBMITTED, {selectedDex})
StepSubmitted(j) ==
  Stage(j, "SUBMITTED", SUBMITTED,
        [NoData EXCEPT !.selectedDex = jobs[j].bestQuote.dex], "SWAP")

\* mockDexRouter.executeSwap: returns a result, or throws 'Slippage tolerance
\* exceeded' or 'Transaction simulation failed: Network congestion'
SwapOutcomes == {"ok", "slippage", "congestion"}

StepSwap(j) ==
  /\ jobs[j].state = "active"
  /\ jobs[j].pc = "SWAP"
  /\ \E outcome \in SwapOutcomes, slippage \in SwapSlippages :
       /\ jobs' = IF outcome = "ok"
                  THEN [jobs EXCEPT ![j].pc = "CONFIRMED",
                                    ![j].result = ExecutionResult(jobs[j].bestQuote,
                                                                  slippage),
                                    ![j].inputs = Append(@, SwapAnswer(TRUE, slippage))]
                  ELSE [jobs EXCEPT ![j].pc = "CATCH",
                                    ![j].inputs = Append(@, SwapAnswer(FALSE, slippage))]
       /\ venueFailures' = [venueFailures EXCEPT ![jobs[j].orderId] =
                              IF outcome = "ok" THEN @ ELSE @ + 1]
  /\ UNCHANGED <<cfgVars, sideVars, waitQ, limiterCount, limiterTTL, dbStatus,
                 dbRetryCount, storeFaults, resubmits, attemptEvents,
                 terminalEvents, execCount, recentStarts, connections, delivered>>

\* processOrder returns, after Step 5 or after the catch: the worker moves the
\* job to completed.
MoveToCompleted(j, ok) ==
  [jobs EXCEPT ![j].state = "completed", ![j].pc = "idle",
               ![j].inputs = Append(@, StoreAnswer(ok))]

\* control goes on inside the invocation, at `pc`
GoesTo(j, pc, ok) ==
  [jobs EXCEPT ![j].pc = pc, ![j].inputs = Append(@, StoreAnswer(ok))]

\* Step 5: updateStatus(CONFIRMED, {selectedDex, txHash, executedPrice}); on
\* success executeOrder and processOrder return.
StepConfirmed(j) ==
  /\ jobs[j].state = "active"
  /\ jobs[j].pc = "CONFIRMED"
  /\ \E ok \in BOOLEAN :
       /\ UpdateStatus(jobs[j].orderId, CONFIRMED, Attempt(j),
                       [NoData EXCEPT !.selectedDex = jobs[j].bestQuote.dex,
                                      !.txHash = jobs[j].result.txHash,
                                      !.executedPrice = jobs[j].result.executedPrice],
                       ok)
       /\ jobs' = IF UpdateStatusReturns(jobs[j].orderId, ok)
                  THEN MoveToCompleted(j, ok) ELSE GoesTo(j, "CATCH", ok)
  /\ UNCHANGED <<cfgVars, sideVars, waitQ, limiterCount, limiterTTL, dbRetryCount,
                 resubmits, execCount, venueFailures, recentStarts, connections>>

\* mutant: handleFailure treats every failure as final
WillRetryNever(isFinal, retryCount) == FALSE

\* handleFailure's test: `!isFinal && (order.retryCount || 0) < retryMaxAttempts - 1`
WillRetry(isFinal, retryCount) ==
  ~isFinal /\ retryCount < retryMaxAttempts - 1

\* OrderExecutionService.handleFailure; ok = FALSE: its store call throws.
HandleFailure(j, isFinal, ok) ==
  IF WillRetry(isFinal, jobs[j].retryCount)
  THEN \* orderModel.incrementRetryCount
       /\ IF ok THEN /\ dbRetryCount' = [dbRetryCount EXCEPT ![jobs[j].orderId] = @ + 1]
                     /\ UNCHANGED storeFaults
                ELSE /\ StoreThrows
                     /\ UNCHANGED dbRetryCount
       /\ UNCHANGED <<dbStatus, attemptEvents, terminalEvents, delivered>>
  ELSE \* updateStatus(FAILED, {error: `... (after N attempts)`})
       /\ UpdateStatus(jobs[j].orderId, FAILED, Attempt(j),
                       [NoData EXCEPT !.errorAttempts = retryMaxAttempts], ok)
       /\ UNCHANGED dbRetryCount

\* handleFailure returns (rather than throws) to its caller
HandleFailureReturns(j, isFinal, ok) ==
  IF WillRetry(isFinal, jobs[j].retryCount)
  THEN ok
  ELSE UpdateStatusReturns(jobs[j].orderId, ok)

\* executeOrder's catch: handleFailure(order, error, false). When it returns,
\* executeOrder and processOrder return; when it throws, processOrder catches.
ExecuteOrderCatch(j) ==
  /\ jobs[j].state = "active"
  /\ jobs[j].pc = "CATCH"
  /\ \E ok \in BOOLEAN :
       /\ HandleFailure(j, FALSE, ok)
       /\ jobs' = IF HandleFailureReturns(j, FALSE, ok)
                  THEN MoveToCompleted(j, ok) ELSE GoesTo(j, "QUEUE_CATCH", ok)
  /\ UNCHANGED <<cfgVars, sideVars, waitQ, limiterCount, limiterTTL, resubmits, execCount,
                 venueFailures, recentStarts, connections>>

\* mutant: processOrder marks the order failed on every failed attempt
IsLastAttemptAlways(attemptsMade) == TRUE

\* processOrder's test for the last allowed attempt
IsLastAttempt(attemptsMade) == attemptsMade >= retryMaxAttempts - 1

\* processOrder's catch: on the last attempt handleFailure(order, error, true);
\* then the error (or the one handleFailure raised) leaves processOrder.
ProcessOrderCatch(j) ==
  /\ jobs[j].state = "active"
  /\ jobs[j].pc = "QUEUE_CATCH"
  /\ IF IsLastAttempt(jobs[j].attemptsMade)
     THEN \E ok \in BOOLEAN :
            /\ HandleFailure(j, TRUE, ok)
            /\ jobs' = [MoveToFailed(j) EXCEPT ![j].inputs = Append(@, StoreAnswer(ok))]
     ELSE /\ jobs' = [MoveToFailed(j) EXCEPT ![j].inputs = Append(@, Rethrown)]
          /\ UNCHANGED <<dbStatus, dbRetryCount, storeFaults, attemptEvents,
                         terminalEvents, delivered>>
  /\ UNCHANGED <<cfgVars, sideVars, waitQ, limiterCount, limiterTTL, resubmits, execCount,
                 venueFailures, recentStarts, connections>>

\* ---------------------------------------------------------- specification
Next ==
  \/ \E id \in OrderIds : PostExecute(id)
  \/ \E id \in OrderIds : AddOrder(id)
  \/ \E j \in JobIdx : StartJob(j)
  \/ \E j \in JobIdx : PromoteDelayed(j)
  \/ Tick
  \/ \E j \in JobIdx : StepPending(j)
  \/ \E j \in JobIdx : StepRouting(j)
  \/ \E j \in JobIdx : StepQuotes(j)
  \/ \E j \in JobIdx : StepRouted(j)
  \/ \E j \in JobIdx : StepBuilding(j)
  \/ \E j \in JobIdx : StepSubmitted(j)
  \/ \E j \in JobIdx : StepSwap(j)
  \/ \E j \in JobIdx : StepConfirmed(j)
  \/ \E j \in JobIdx : ExecuteOrderCatch(j)
  \/ \E j \in JobIdx : ProcessOrderCatch(j)

Spec == Init /\ [][Next]_vars

\* ------------------------------------------------- the router on its own
\* quotes a caller may pass: any venue tag with any amountOut
AnyQuotes ==
  {[dex |-> dex, price |-> amountOut, fee |-> 0, amountOut |-> amountOut,
    timestamp |-> 0] : dex \in {RAYDIUM, METEORA}, amountOut \in 1..MaxAmountOut}

\* prices around a base price of 100: Raydium 0.98..1.02, Meteora 0.97..1.02
RouterPrices == 97..102

\* what getAllQuotes can return
VenueQuoteLists ==
  {GetAllQuotes(raydiumPrice, meteoraPrice, 0) :
     raydiumPrice \in RouterPrices \ {97}, meteoraPrice \in RouterPrices}

\* the non-empty quote lists selectBestDex is called with
QuoteLists ==
  UNION {[1..n -> AnyQuotes] : n \in 1..MaxQuotes} \cup VenueQuoteLists

\* the slippage tolerances an order can carry (validateSlippage: 0..0.5),
\* per mille
SlippageTolerances == {0, 5, 9, 10, 500}

\* the arguments of executeSwap and its draws
SwapCalls ==
  {[called |-> TRUE, order |-> [slippage |-> tolerance],
    selectedQuote |-> selectedQuote, slippage |-> slippage,
    congestion |-> congestion] :
     tolerance \in SlippageTolerances,
     selectedQuote \in {GetRaydiumQuote(98, 0), GetMeteorQuote(102, 0)},
     slippage \in SwapSlippageRange,
     congestion \in BOOLEAN}

\* a promise: not created, pending, fulfilled with a quote, or rejected
Idle == [state |-> "idle", quote |-> NoQuote]
Pending == [state |-> "pending", quote |-> NoQuote]
Fulfilled(quote) == [state |-> "fulfilled", quote |-> quote]
Rejected == [state |-> "rejected", quote |-> NoQuote]

\* the arguments of getAllQuotes: token strings, or a token that is undefined
\* (getBasePrice then throws a TypeError in both venue requests)
QuotesCalls ==
  {[called |-> TRUE, tokens |-> tokens, raydium |-> Idle, meteora |-> Idle,
    promise |-> "idle"] : tokens \in {"strings", "undefined"}}

\* the fields an order passed to validateOrder may carry
ValidateCalls ==
  LET TokenFields == {Undefined, Str("", 0), Str("SOL", 3), Str("USDC", 4),
                      Str("A*44", 44), Str("A*45", 45)}
  IN  {[called |-> TRUE,
        order |-> [type |-> "market", tokenIn |-> tokenIn, tokenOut |-> tokenOut,
                   amountIn |-> amountIn, slippage |-> slippage]] :
         tokenIn \in TokenFields, tokenOut \in TokenFields,
         amountIn \in {Undefined, Num(-1), Num(0), Num(100)},
         slippage \in {Undefined, Num(-1), Num(0), Num(10), Num(500), Num(501)}}

\* one direct call per behaviour: of selectBestDex, executeSwap, getAllQuotes
\* or validateOrder
InitRouter ==
  /\ retryMaxAttempts = DefaultRetryMaxAttempts
  /\ maxConcurrentOrders = MaxConcurrency
  /\ InitEngine
  /\ NoExecRequest
  /\ \E method \in {"selectBestDex", "executeSwap", "getAllQuotes", "validateOrder"} :
       /\ routerQuotes \in IF method = "selectBestDex" THEN QuoteLists ELSE {<<>>}
       /\ swapCall \in IF method = "executeSwap" THEN SwapCalls ELSE {NoCall}
       /\ quotesCall \in IF method = "getAllQuotes" THEN QuotesCalls ELSE {NoCall}
       /\ validateCall \in IF method = "validateOrder" THEN ValidateCalls ELSE {NoCall}
  /\ routerBest = NoQuote
  /\ routerCalls = 0
  /\ swapReturn = NotCalled
  /\ quotesReturn = <<>>
  /\ validateReturn = NoCall

\* mockDexRouter.selectBestDex(quotes)
CallSelectBestDex ==
  /\ routerQuotes # <<>>
  /\ routerCalls < MaxRouterCalls
  /\ routerBest' = SelectBestDex(routerQuotes)
  /\ routerCalls' = routerCalls + 1
  /\ UNCHANGED <<cfgVars, lifecycleVars, engineVars, managerVars, routeVars, routerQuotes, swapVars,
                 quotesVars, validateVars>>

\* mockDexRouter.executeSwap(order, selectedQuote)
CallExecuteSwap ==
  /\ swapCall.called
  /\ swapReturn = NotCalled
  /\ swapReturn' = ExecuteSwap(swapCall.order, swapCall.selectedQuote,
                               swapCall.slippage, swapCall.congestion)
  /\ UNCHANGED <<cfgVars, lifecycleVars, engineVars, managerVars, routeVars, routerVars, swapCall,
                 quotesVars, validateVars>>

\* a combinator that settles as soon as one of the promises has settled
PromiseRace(raydium, meteora) ==
  IF "rejected" \in {raydium.state, meteora.state} THEN "rejected"
  ELSE IF "fulfilled" \in {raydium.state, meteora.state} THEN "fulfilled"
  ELSE "pending"

\* Promise.all([raydium, meteora]): rejected as soon as one of them is
\* rejected, fulfilled once both are fulfilled
PromiseAll(raydium, meteora) ==
  IF "rejected" \in {raydium.state, meteora.state} THEN "rejected"
  ELSE IF raydium.state = "fulfilled" /\ meteora.state = "fulfilled" THEN "fulfilled"
  ELSE "pending"

\* getAllQuotes is called: getRaydiumQuote and getMeteorQuote are both
\* invoked, each runs up to its await this.sleep(200), and the call awaits
\* Promise.all of the two promises
CallGetAllQuotes ==
  /\ quotesCall.called
  /\ quotesCall.promise = "idle"
  /\ quotesCall' = [quotesCall EXCEPT !.raydium = Pending, !.meteora = Pending,
                                      !.promise = "pending"]
  /\ UNCHANGED <<cfgVars, lifecycleVars, engineVars, managerVars, routeVars, routerVars, swapVars,
                 quotesReturn, validateVars>>

\* a venue request goes on after its sleep and settles its promise;
\* getAllQuotes settles with Promise.all and returns [raydiumQuote, meteoraQuote]
VenueResponds(venue, settled) ==
  LET call == IF venue = RAYDIUM THEN [quotesCall EXCEPT !.raydium = settled]
                                 ELSE [quotesCall EXCEPT !.meteora = settled]
      all == PromiseAll(call.raydium, call.meteora)
  IN  /\ quotesCall' = [call EXCEPT !.promise = IF quotesCall.promise = "pending"
                                                 THEN all ELSE @]
      /\ quotesReturn' = IF quotesCall.promise = "pending" /\ all = "fulfilled"
                         THEN <<call.raydium.quote, call.meteora.quote>>
                         ELSE quotesReturn
      /\ UNCHANGED <<cfgVars, lifecycleVars, engineVars, managerVars, routeVars, routerVars, swapVars,
                     validateVars>>

\* getRaydiumQuote after its sleep
RaydiumResponds ==
  /\ quotesCall.called
  /\ quotesCall.raydium.state = "pending"
  /\ \E price \in RaydiumPrices :
       VenueResponds(RAYDIUM, IF quotesCall.tokens = "strings"
                              THEN Fulfilled(GetRaydiumQuote(price, 0))
                              ELSE Rejected)

\* getMeteorQuote after its sleep
MeteoraResponds ==
  /\ quotesCall.called
  /\ quotesCall.meteora.state = "pending"
  /\ \E price \in MeteoraPrices :
       VenueResponds(METEORA, IF quotesCall.tokens = "strings"
                              THEN Fulfilled(GetMeteorQuote(price, 0))
                              ELSE Rejected)

\* orderExecutionService.validateOrder(order)
CallValidateOrder ==
  /\ validateCall.called
  /\ validateReturn = NoCall
  /\ validateReturn' = ValidateOrder(validateCall.order)
  /\ UNCHANGED <<cfgVars, lifecycleVars, engineVars, managerVars, routeVars, routerVars, swapVars,
                 quotesVars, validateCall>>

NextRouter ==
  \/ CallValidateOrder
  \/ CallSelectBestDex
  \/ CallExecuteSwap
  \/ CallGetAllQuotes
  \/ RaydiumResponds
  \/ MeteoraResponds

SpecRouter == InitRouter /\ [][NextRouter]_vars

\* ------------------------------------------------- subscriber sockets
\* The client closes its socket (or the connection drops): readyState is no
\* longer OPEN; the 'close' event has not been handled yet.
SocketCloses(id) ==
  /\ connections[id] \in {"open", "broken"}
  /\ connections' = [connections EXCEPT ![id] = "closed"]
  /\ UNCHANGED <<cfgVars, sideVars, jobs, waitQ, limiterCount, limiterTTL, dbStatus,
                 dbRetryCount, storeFaults, resubmits, attemptEvents,
                 terminalEvents, execCount, venueFailures, recentStarts, delivered>>

\* The socket stays OPEN but its send starts to throw.
SocketBreaks(id) ==
  /\ connections[id] = "open"
  /\ connections' = [connections EXCEPT ![id] = "broken"]
  /\ UNCHANGED <<cfgVars, sideVars, jobs, waitQ, limiterCount, limiterTTL, dbStatus,
                 dbRetryCount, storeFaults, resubmits, attemptEvents,
                 terminalEvents, execCount, venueFailures, recentStarts, delivered>>

\* register's ws.on('close') and ws.on('error') handlers: connections.delete
SocketEvent(id) ==
  /\ connections[id] \in {"closed", "broken"}
  /\ connections' = [connections EXCEPT ![id] = "none"]
  /\ UNCHANGED <<cfgVars, sideVars, jobs, waitQ, limiterCount, limiterTTL, dbStatus,
                 dbRetryCount, storeFaults, resubmits, attemptEvents,
                 terminalEvents, execCount, venueFailures, recentStarts, delivered>>

\* The engine with two worker slots and one retry per order. The subscriber
\* of o2 may close, break or disappear at any moment; the subscriber of o1
\* stays open, so that o1 is the run to compare o2 with.
UnreliableSubscribers == {"o2"}

InitWs ==
  /\ Init
  /\ retryMaxAttempts = 2
  /\ maxConcurrentOrders = MaxConcurrency

NextWs ==
  \/ \E id \in OrderIds : PostExecute(id)
  \/ \E j \in JobIdx : StartJob(j)
  \/ \E j \in JobIdx : PromoteDelayed(j)
  \/ Tick
  \/ \E j \in JobIdx : StepPending(j)
  \/ \E j \in JobIdx : StepRouting(j)
  \/ \E j \in JobIdx : StepQuotes(j)
  \/ \E j \in JobIdx : StepRouted(j)
  \/ \E j \in JobIdx : StepBuilding(j)
  \/ \E j \in JobIdx : StepSubmitted(j)
  \/ \E j \in JobIdx : StepSwap(j)
  \/ \E j \in JobIdx : StepConfirmed(j)
  \/ \E j \in JobIdx : ExecuteOrderCatch(j)
  \/ \E j \in JobIdx : ProcessOrderCatch(j)
  \/ \E id \in UnreliableSubscribers : SocketCloses(id)
  \/ \E id \in UnreliableSubscribers : SocketBreaks(id)
  \/ \E id \in UnreliableSubscribers : SocketEvent(id)

SpecWs == InitWs /\ [][NextWs]_vars

\* ------------------------------------------ pause(), resume(), close()
\* OrderQueueService.pause(): queue.pause()
Pause ==
  /\ ~queuePaused
  /\ ~closeCalled
  /\ queuePaused' = TRUE
  /\ UNCHANGED <<cfgVars, engineVars, callVars, managerVars, routeVars,
                 closeCalled, closed>>

\* OrderQueueService.resume(): queue.resume()
Resume ==
  /\ queuePaused
  /\ ~closeCalled
  /\ queuePaused' = FALSE
  /\ UNCHANGED <<cfgVars, engineVars, callVars, managerVars, routeVars,
                 closeCalled, closed>>

\* mutant: close() releases the connection before it closes the worker
CloseOrderConnectionFirst == <<"connection", "worker", "queue", "queueEvents">>

\* close(): await worker.close(); await queue.close();
\* await queueEvents.close(); await connection.quit()
CloseOrder == <<"worker", "queue", "queueEvents", "connection">>

\* OrderQueueService.close() is called: worker.close() makes the worker stop
\* fetching jobs
QueueClose ==
  /\ ~closeCalled
  /\ closeCalled' = TRUE
  /\ UNCHANGED <<cfgVars, engineVars, callVars, managerVars, routeVars,
                 queuePaused, closed>>

\* The next await of close() resolves; worker.close() resolves when the
\* processors that are running have returned.
QueueCloseStep ==
  /\ closeCalled
  /\ Len(closed) < Len(CloseOrder)
  /\ CloseOrder[Len(closed) + 1] = "worker" => ActiveJobs = {}
  /\ closed' = Append(closed, CloseOrder[Len(closed) + 1])
  /\ UNCHANGED <<cfgVars, engineVars, callVars, managerVars, routeVars,
                 queuePaused, closeCalled>>

\* what the worker and the running processor of job j do
JobStep(j) ==
  /\ j \in JobIdx
  /\ \/ StartJob(j)
     \/ PromoteDelayed(j)
     \/ StepPending(j)
     \/ StepRouting(j)
     \/ StepQuotes(j)
     \/ StepRouted(j)
     \/ StepBuilding(j)
     \/ StepSubmitted(j)
     \/ StepSwap(j)
     \/ StepConfirmed(j)
     \/ ExecuteOrderCatch(j)
     \/ ProcessOrderCatch(j)

\* the engine with one worker slot and one retry per order
InitLifecycle ==
  /\ Init
  /\ retryMaxAttempts = 2
  /\ maxConcurrentOrders = 1

\* the engine with pause() and resume()
NextPause ==
  \/ \E id \in OrderIds : PostExecute(id)
  \/ \E j \in JobIdx : JobStep(j)
  \/ Tick
  \/ Pause
  \/ Resume

SpecPause == InitLifecycle /\ [][NextPause]_vars

\* every pending await of a processor settles, timers fire and an idle worker
\* fetches the next job it is allowed to fetch
SpecPauseFair ==
  /\ SpecPause
  /\ WF_vars(Tick)
  /\ \A j \in 1..Cardinality(OrderIds) : WF_vars(JobStep(j))

\* the engine with close(); no order is created once close() was called
NextClose ==
  \/ \E id \in OrderIds : ~closeCalled /\ PostExecute(id)
  \/ \E j \in JobIdx : JobStep(j)
  \/ Tick
  \/ QueueClose
  \/ QueueCloseStep

SpecClose == InitLifecycle /\ [][NextClose]_vars

\* as SpecPauseFair, and every await of close() settles when it can
SpecCloseFair ==
  /\ SpecClose
  /\ WF_vars(Tick)
  /\ WF_vars(QueueCloseStep)
  /\ \A j \in 1..Cardinality(OrderIds) : WF_vars(JobStep(j))

\* ------------------------------------------- POST /execute from its body
\* the request bodies a client may send
Bodies ==
  {[type |-> type, tokenIn |-> tokenIn, tokenOut |-> tokenOut,
    amountIn |-> amountIn, slippage |-> slippage] :
     type \in {"market", "stop"},
     tokenIn \in {Undefined, Str("SOL", 3), Str("A*45", 45)},
     tokenOut \in {Str("SOL", 3), Str("USDC", 4)},
     amountIn \in {Num(0), Num(100)},
     slippage \in {Undefined, Num(10), Num(501)}}

\* order.orderId = uuidv4(): an id no order has
NewOrderId == CHOOSE id \in OrderIds : dbStatus[id] = "none"

\* socket.send({error, details}); socket.close(); return
Reject(error) ==
  /\ execRequest' = [execRequest EXCEPT !.state = "rejected"]
  /\ execSocket' = [sent |-> Append(execSocket.sent, error), closed |-> TRUE]
  /\ UNCHANGED <<cfgVars, lifecycleVars, engineVars, callVars, managerVars>>

\* the handler's catch: socket.send({error: 'Failed to create order', message});
\* socket.close().  A registered socket stays in connections, no longer OPEN,
\* until its 'close' event is handled.
CatchExecute ==
  /\ execRequest' = [execRequest EXCEPT !.state = "failed"]
  /\ execSocket' = [sent |-> Append(execSocket.sent, "Failed to create order"),
                    closed |-> TRUE]
  /\ connections' = [id \in OrderIds |->
                       IF id = execRequest.orderId /\ connections[id] = "open"
                       THEN "closed" ELSE connections[id]]

\* mutant: the job is queued before the socket is registered
AfterCreateAddFirst == <<"addOrder", "register">>

\* the statements of the handler after `await orderModel.create(order)`:
\* wsManager.register with the initial response, then
\* `await orderQueueService.addOrder(order)`
AfterCreate == <<"register", "addOrder">>

\* POST /execute up to `await orderModel.create(order)`:
\* createOrderSchema.safeParse, validateOrder, and for a body that passes
\* both, the INSERT of the order; created = FALSE: the INSERT fails
HandleExecute ==
  /\ execRequest.state = "received"
  /\ LET validationResult == CreateOrderSchema(execRequest.body) IN
       IF ~validationResult.success
         THEN Reject("Validation failed")
       ELSE IF ~ValidateOrder(validationResult.data).valid
         THEN Reject("Order validation failed")
       ELSE \E created \in BOOLEAN :
              /\ IF created
                 THEN /\ dbStatus' = [dbStatus EXCEPT ![NewOrderId] = PENDING]
                      /\ execRequest' = [execRequest EXCEPT !.state = "created",
                                                            !.orderId = NewOrderId,
                                                            !.pc = 1]
                      /\ UNCHANGED <<storeFaults, execSocket, connections>>
                 ELSE /\ StoreThrows
                      /\ CatchExecute
                      /\ UNCHANGED dbStatus
              /\ UNCHANGED <<cfgVars, lifecycleVars, callVars, managerVars, jobs, waitQ,
                             limiterCount, limiterTTL, dbRetryCount, resubmits,
                             attemptEvents, terminalEvents, execCount,
                             venueFailures, recentStarts, delivered>>

\* POST /execute after the order was stored: the next statement of the
\* handler runs; queued = FALSE: queue.add fails and addOrder rethrows
ContinueExecute ==
  /\ execRequest.state = "created"
  /\ LET id   == execRequest.orderId
         next == [execRequest EXCEPT
                    !.state = IF execRequest.pc = Len(AfterCreate)
                              THEN "admitted" ELSE "created",
                    !.pc = @ + 1]
     IN  IF AfterCreate[execRequest.pc] = "register"
         THEN /\ connections' = [connections EXCEPT ![id] = "open"]
              /\ delivered' = [delivered EXCEPT ![id] = Append(@, CreatedMessage)]
              /\ execSocket' = [execSocket EXCEPT
                                  !.sent = Append(@, "Order created successfully")]
              /\ execRequest' = next
              /\ UNCHANGED <<jobs, waitQ>>
         ELSE \E queued \in BOOLEAN :
                IF queued
                THEN /\ QueueAdd(id)
                     /\ execRequest' = next
                     /\ UNCHANGED <<execSocket, connections, delivered>>
                ELSE /\ CatchExecute
                     /\ UNCHANGED <<jobs, waitQ, delivered>>
  /\ UNCHANGED <<cfgVars, lifecycleVars, callVars, managerVars, limiterCount, limiterTTL,
                 dbStatus, dbRetryCount, storeFaults, resubmits, attemptEvents,
                 terminalEvents, execCount, venueFailures, recentStarts>>

\* one request, with any body, sent to an engine with one worker slot
InitRoute ==
  /\ retryMaxAttempts = DefaultRetryMaxAttempts
  /\ maxConcurrentOrders = 1
  /\ InitEngine
  /\ InitCalls
  /\ execRequest \in {[state |-> "received", body |-> body, orderId |-> "", pc |-> 0] :
                        body \in Bodies}
  /\ execSocket = NoReply

NextRoute ==
  \/ HandleExecute
  \/ ContinueExecute
  \/ \E id \in OrderIds : SocketEvent(id)
  \/ \E j \in JobIdx : StartJob(j)
  \/ \E j \in JobIdx : PromoteDelayed(j)
  \/ Tick
  \/ \E j \in JobIdx : StepPending(j)
  \/ \E j \in JobIdx : StepRouting(j)
  \/ \E j \in JobIdx : StepQuotes(j)
  \/ \E j \in JobIdx : StepRouted(j)
  \/ \E j \in JobIdx : StepBuilding(j)
  \/ \E j \in JobIdx : StepSubmitted(j)
  \/ \E j \in JobIdx : StepSwap(j)
  \/ \E j \in JobIdx : StepConfirmed(j)
  \/ \E j \in JobIdx : ExecuteOrderCatch(j)
  \/ \E j \in JobIdx : ProcessOrderCatch(j)

SpecRoute == InitRoute /\ [][NextRoute]_vars

\* a socket closed by socket.close() emits 'close' once the closing handshake
\* has ended or timed out
SpecRouteFair == SpecRoute /\ WF_vars(\E id \in OrderIds : SocketEvent(id))

\* ------------------------------------------ WebSocketManager: operations
ManagerCall(op, orderId, ws, raised) ==
  [op |-> op, orderId |-> orderId, ws |-> ws, raised |-> raised]

\* wsManager.register(orderId, ws)
Register(orderId, ws) ==
  /\ wsConnections' = MapSet(wsConnections, orderId, ws)
  /\ wsHandlers' = [wsHandlers EXCEPT ![ws] = @ \cup {orderId}]
  /\ wsLatest' = [wsLatest EXCEPT ![orderId] = ws]
  /\ wsLastCall' = ManagerCall("register", orderId, ws, FALSE)
  /\ UNCHANGED <<cfgVars, lifecycleVars, engineVars, callVars, routeVars, wsReadyState, wsInbox>>

\* a sendUpdate that lets the exception of ws.send reach its caller
SendRaisesUncaught(sendThrows) == sendThrows

\* sendUpdate's try / catch around ws.send: the exception is logged
SendRaises(sendThrows) == FALSE

\* the updates sent directly
ManagerUpdates == {[orderId |-> id, status |-> PENDING] : id \in OrderIds}

\* wsManager.sendUpdate(update); sendThrows: ws.send throws
WsSendUpdate(update, sendThrows) ==
  LET ws == MapGet(wsConnections, update.orderId) IN
    /\ IF ws = NoSocket \/ wsReadyState[ws] # "OPEN"
         THEN /\ wsInbox' = wsInbox
              /\ wsLastCall' = ManagerCall("sendUpdate", update.orderId, ws, FALSE)
       ELSE IF sendThrows
         THEN /\ wsInbox' = wsInbox
              /\ wsLastCall' = ManagerCall("sendUpdate", update.orderId, ws,
                                           SendRaises(sendThrows))
       ELSE /\ wsInbox' = [wsInbox EXCEPT ![ws] = Append(@, update)]
            /\ wsLastCall' = ManagerCall("sendUpdate", update.orderId, ws, FALSE)
    /\ UNCHANGED <<cfgVars, lifecycleVars, engineVars, callVars, routeVars, wsConnections, wsReadyState,
                   wsHandlers, wsLatest>>

\* a sendUpdate call, while fewer than MaxTransmitted messages were transmitted
SendUpdateCall ==
  /\ Len(wsInbox["ws1"]) + Len(wsInbox["ws2"]) < MaxTransmitted
  /\ \E update \in ManagerUpdates, sendThrows \in BOOLEAN :
       WsSendUpdate(update, sendThrows)

\* ws.close(): an open socket starts its closing handshake
WsClose(readyState) == IF readyState = "OPEN" THEN "CLOSING" ELSE readyState

\* wsManager.close(orderId)
Close(orderId) ==
  LET ws == MapGet(wsConnections, orderId) IN
    /\ IF ws # NoSocket
       THEN /\ wsReadyState' = [wsReadyState EXCEPT ![ws] = WsClose(@)]
            /\ wsConnections' = MapDelete(wsConnections, orderId)
       ELSE UNCHANGED <<wsReadyState, wsConnections>>
    /\ wsLastCall' = ManagerCall("close", orderId, ws, FALSE)
    /\ UNCHANGED <<cfgVars, lifecycleVars, engineVars, callVars, routeVars, wsHandlers, wsInbox, wsLatest>>

\* wsManager.closeAll()
CloseAll ==
  /\ wsReadyState' = [ws \in Sockets |->
                        IF \E i \in DOMAIN wsConnections : wsConnections[i].ws = ws
                        THEN WsClose(wsReadyState[ws]) ELSE wsReadyState[ws]]
  /\ wsConnections' = <<>>
  /\ wsLastCall' = ManagerCall("closeAll", "", NoSocket, FALSE)
  /\ UNCHANGED <<cfgVars, lifecycleVars, engineVars, callVars, routeVars, wsHandlers, wsInbox, wsLatest>>

\* the order ids of the handlers register attached to a socket
Handlers(ws) == wsHandlers[ws]

\* connections after the socket's handlers ran: each deletes its orderId
RECURSIVE DeleteAll(_, _)
DeleteAll(map, keys) ==
  IF keys = {} THEN map
  ELSE LET key == CHOOSE k \in keys : TRUE
       IN  DeleteAll(MapDelete(map, key), keys \ {key})

\* the socket emits 'close' (once, when its connection has ended): every
\* ws.on('close') handler of register runs
SocketEmitsClose(ws) ==
  /\ wsReadyState[ws] # "CLOSED"
  /\ wsReadyState' = [wsReadyState EXCEPT ![ws] = "CLOSED"]
  /\ wsConnections' = DeleteAll(wsConnections, Handlers(ws))
  /\ wsLastCall' = ManagerCall("on close", "", ws, FALSE)
  /\ UNCHANGED <<cfgVars, lifecycleVars, engineVars, callVars, routeVars, wsHandlers, wsInbox, wsLatest>>

\* the socket emits 'error' (its connection is being torn down): every
\* ws.on('error') handler of register runs
SocketEmitsError(ws) ==
  /\ wsReadyState[ws] = "OPEN"
  /\ wsReadyState' = [wsReadyState EXCEPT ![ws] = "CLOSING"]
  /\ wsConnections' = DeleteAll(wsConnections, Handlers(ws))
  /\ wsLastCall' = ManagerCall("on error", "", ws, FALSE)
  /\ UNCHANGED <<cfgVars, lifecycleVars, engineVars, callVars, routeVars, wsHandlers, wsInbox, wsLatest>>

InitManagerSpec ==
  /\ retryMaxAttempts = DefaultRetryMaxAttempts
  /\ maxConcurrentOrders = MaxConcurrency
  /\ InitEngine
  /\ InitCalls
  /\ NoExecRequest

NextManager ==
  \/ \E id \in OrderIds, ws \in Sockets : Register(id, ws)
  \/ SendUpdateCall
  \/ \E id \in OrderIds : Close(id)
  \/ CloseAll
  \/ \E ws \in Sockets : SocketEmitsClose(ws)
  \/ \E ws \in Sockets : SocketEmitsError(ws)

SpecManager == InitManagerSpec /\ [][NextManager]_vars

\* =================================================================== claims
Statuses(events) == {events[i].status : i \in DOMAIN events}

FailedPublished(id) == FAILED \in Statuses(terminalEvents[id])

\* C1: every admitted order eventually has a terminal status event (CONFIRMED
\* or FAILED) published, whatever the venue does, when the store never fails.
\* Stated on the moment the job has left the scheduler, after which nothing is
\* ever published for the order again: by then the terminal event must exist.
C1_AdmittedOrderGetsTerminalEvent ==
  \A j \in JobIdx :
    (storeFaults = 0 /\ JobDone(j)) => terminalEvents[jobs[j].orderId] # <<>>

\* C2: an order whose settlement fails on every attempt is attempted exactly
\* retryMaxAttempts times (3 with the default) and then has FAILED published.
C2_AlwaysFailingOrderAttemptedMaxTimes ==
  \A j \in JobIdx :
    LET id == jobs[j].orderId IN
      (/\ retryMaxAttempts = DefaultRetryMaxAttempts
       /\ storeFaults = 0
       /\ JobDone(j)
       /\ venueFailures[id] = execCount[id])
        => (execCount[id] = retryMaxAttempts /\ FailedPublished(id))

\* C3: for every order id, over all attempts and interleavings, at most one
\* terminal event is ever published (never two CONFIRMED, two FAILED, or both).
C3_AtMostOneTerminalEvent ==
  \A id \in OrderIds : Len(terminalEvents[id]) <= 1

\* C3 witness: an order that went through a failed attempt and a retry has its
\* terminal event.
C3_Witness ==
  \E j \in JobIdx :
    /\ jobs[j].attemptsMade >= 1
    /\ JobDone(j)
    /\ Len(terminalEvents[jobs[j].orderId]) = 1

StageRank(status) ==
  CASE status = PENDING -> 1
    [] status = ROUTING -> 2
    [] status = BUILDING -> 3
    [] status = SUBMITTED -> 4
    [] status = CONFIRMED -> 5
    [] status = FAILED -> 5

\* C4: within one attempt the status events are published in stage order
\* PENDING, ROUTING, BUILDING, SUBMITTED, then CONFIRMED or FAILED: no event of
\* an earlier stage follows one of a later stage, and CONFIRMED is published
\* only after PENDING, ROUTING, BUILDING and SUBMITTED of the same attempt.
C4_StageOrderWithinAttempt ==
  \A id \in OrderIds :
    LET ev == attemptEvents[id] IN
      \A k \in DOMAIN ev :
        /\ \A i \in 1..(k - 1) :
             /\ StageRank(ev[i].status) <= StageRank(ev[k].status)
             /\ ev[i].attempt = ev[k].attempt
             /\ ~IsTerminal(ev[i].status)
        /\ ev[k].status = CONFIRMED =>
             {PENDING, ROUTING, BUILDING, SUBMITTED}
               \subseteq {ev[i].status : i \in 1..(k - 1)}

\* C4 witness: a retry attempt that published its whole sequence up to CONFIRMED.
C4_Witness ==
  \E id \in OrderIds :
    /\ Len(attemptEvents[id]) = 6
    /\ attemptEvents[id][6].status = CONFIRMED
    /\ attemptEvents[id][6].attempt = 2

\* C5: addOrder called a second time with the id of an order whose job is still
\* queued or running leads to exactly one pipeline execution (one job) and
\* one terminal event for that id. Stated on the job having left the scheduler.
C5_ResubmittedOrderOneJobOneTerminal ==
  \A id \in resubmits :
    /\ Cardinality(JobsOf(id)) = 1
    /\ \A j \in JobsOf(id) :
         (storeFaults = 0 /\ JobDone(j)) => Len(terminalEvents[id]) = 1

\* C6: for every order id at most one executeOrder invocation is in flight; a
\* retry is never scheduled or started while another attempt of the same order
\* is running or scheduled, and no job is queued twice.
C6_OneInvocationInFlightPerOrder ==
  /\ \A id \in OrderIds :
       /\ Cardinality({j \in JobsOf(id) : jobs[j].state = "active"}) <= 1
       /\ Cardinality({j \in JobsOf(id) : InScheduler(j)}) <= 1
  /\ \A a, b \in DOMAIN waitQ : waitQ[a] = waitQ[b] => a = b
  /\ \A j \in JobIdx :
       (\E a \in DOMAIN waitQ : waitQ[a] = j) <=> jobs[j].state = "waiting"
  /\ \A j \in JobIdx : jobs[j].pc # "idle" <=> jobs[j].state = "active"

\* C6 witness: a retry attempt of an order is in flight.
C6_Witness ==
  \E j \in JobIdx : jobs[j].state = "active" /\ jobs[j].attemptsMade >= 1

\* C7: the number of orders whose pipeline is executing at the same time never
\* exceeds maxConcurrentOrders, retries included.
C7_ConcurrencyBound ==
  Cardinality(ActiveJobs) <= maxConcurrentOrders

\* C7 witness: more orders admitted than worker slots, every slot busy, and a
\* retried job waiting for a slot.
C7_Witness ==
  /\ Len(jobs) > maxConcurrentOrders
  /\ Cardinality(ActiveJobs) = maxConcurrentOrders
  /\ \E a \in DOMAIN waitQ : jobs[waitQ[a]].attemptsMade >= 1

\* C8 (as claimed): in any rolling window of limiterDuration the number of
\* attempts started never exceeds orderRateLimit.
C8_RollingWindowRateBound ==
  SumSeq(recentStarts) <= orderRateLimit

\* C8 (amended): within one limiter window, which opens with the first attempt
\* started after the previous window expired and lasts limiterDuration, at most
\* orderRateLimit attempts start, so a rolling window holds at most
\* 2 * orderRateLimit - 1; and the rate and concurrency bounds hold together: an
\* attempt starts only when a worker slot is free and the window's count is
\* below orderRateLimit.
C8_LimiterWindowAndConcurrency ==
  /\ [](/\ limiterCount <= orderRateLimit
        /\ (limiterCount > 0 <=> limiterTTL > 0)
        /\ SumSeq(recentStarts) <= 2 * orderRateLimit - 1
        /\ Cardinality(ActiveJobs) <= maxConcurrentOrders)
  /\ [][execCount' # execCount =>
          /\ Cardinality(ActiveJobs) < maxConcurrentOrders
          /\ limiterCount < orderRateLimit
          /\ limiterCount' = limiterCount + 1]_vars

\* C8 witness: a worker slot is free and a job is waiting, but the limiter
\* window is used up, so the job is held back.
C8_Witness ==
  /\ waitQ # <<>>
  /\ Cardinality(ActiveJobs) < maxConcurrentOrders
  /\ limiterCount = orderRateLimit

\* C9: the attempts made for an order never exceed retryMaxAttempts, and once
\* retryMaxAttempts attempts have failed the order is FAILED and the job is
\* never run again.
C9_ExhaustedAttemptsMeanFailed ==
  \A j \in JobIdx :
    /\ jobs[j].attemptsMade <= retryMaxAttempts
    /\ jobs[j].attemptsMade = retryMaxAttempts =>
         /\ jobs[j].state = "failed"
         /\ dbStatus[jobs[j].orderId] = FAILED
         /\ FailedPublished(jobs[j].orderId)

\* C10: a failure on an attempt that is not the last allowed one publishes no
\* FAILED event: every FAILED event is published on attempt retryMaxAttempts,
\* and an order for which FAILED was published is never scheduled for a retry.
C10_FailedOnlyOnLastAttempt ==
  \A id \in OrderIds :
    /\ \A i \in DOMAIN terminalEvents[id] :
         terminalEvents[id][i].status = FAILED =>
           terminalEvents[id][i].attempt = retryMaxAttempts
    /\ FailedPublished(id) =>
         \A j \in JobsOf(id) :
           /\ jobs[j].state \notin {"waiting", "delayed"}
           /\ jobs[j].state = "active" => Attempt(j) = retryMaxAttempts

\* C10 witness: an attempt failed at the venue, the job is delayed for its
\* retry, and no FAILED event has been published for the order.
C10_Witness ==
  \E j \in JobIdx :
    /\ jobs[j].state = "delayed"
    /\ venueFailures[jobs[j].orderId] >= 1
    /\ ~FailedPublished(jobs[j].orderId)

LastStatus(events) == events[Len(events)].status

\* C11: whenever a stage of executeOrder raises an error, the worker's attempt
\* ends as failed and is not recorded as a completed job: a job is completed
\* only by an attempt that ran through to CONFIRMED.
C11_StageErrorEndsAttemptAsFailed ==
  \A j \in JobIdx :
    jobs[j].state = "completed" =>
      /\ attemptEvents[jobs[j].orderId] # <<>>
      /\ LastStatus(attemptEvents[jobs[j].orderId]) = CONFIRMED

\* C12: at every failure the test handleFailure makes on order.retryCount and
\* the test processOrder makes on job.attemptsMade agree on whether this is the
\* last attempt.
C12_RetryCountAndAttemptsMadeAgree ==
  \A j \in JobIdx :
    (jobs[j].state = "active" /\ jobs[j].pc = "CATCH") =>
      (WillRetry(FALSE, jobs[j].retryCount) <=> ~IsLastAttempt(jobs[j].attemptsMade))

C14_RetryRerunsWholePipeline ==
  /\ [](\A j \in JobIdx :
          LET id == jobs[j].orderId
              ev == attemptEvents[id]
          IN  /\ \A k \in DOMAIN ev :
                   /\ ev[k].attempt = execCount[id]
                   /\ ev[k].status \notin {PENDING, FAILED} => ev[1].status = PENDING
                   /\ ev[k].data.quotes # <<>> =>
                        /\ Len(ev[k].data.quotes) = 2
                        /\ \A q \in DOMAIN ev[k].data.quotes :
                             ev[k].data.quotes[q].timestamp = ev[k].attempt
                        /\ ev[k].data.selectedDex = SelectBestDex(ev[k].data.quotes).dex
              /\ jobs[j].pc \in {"PENDING", "ROUTING", "QUOTES"} =>
                   /\ jobs[j].quotes = <<>>
                   /\ jobs[j].bestQuote = NoQuote
                   /\ jobs[j].result = NoResult
              /\ jobs[j].pc \in {"ROUTED", "BUILDING", "SUBMITTED", "SWAP", "CONFIRMED"} =>
                   /\ Len(jobs[j].quotes) = 2
                   /\ \A q \in DOMAIN jobs[j].quotes :
                        jobs[j].quotes[q].timestamp = execCount[id]
                   /\ jobs[j].bestQuote = SelectBestDex(jobs[j].quotes))
  /\ [][\A j \in JobIdx :
          (jobs[j].state # "active" /\ jobs'[j].state = "active") =>
            /\ jobs'[j].pc = "PENDING"
            /\ attemptEvents'[jobs[j].orderId] = <<>>
            /\ execCount'[jobs[j].orderId] = execCount[jobs[j].orderId] + 1]_vars

\* C14 witness: a retry attempt has published its own routing decision.
C14_Witness ==
  \E id \in OrderIds :
    \E k \in DOMAIN attemptEvents[id] :
      /\ attemptEvents[id][k].attempt >= 2
      /\ attemptEvents[id][k].data.quotes # <<>>
      /\ attemptEvents[id][1].status = PENDING

\* C15: a store failure during an attempt does not change the pipeline outcome:
\* an order whose venue calls never failed is never reported FAILED, is never
\* retried, and leaves the scheduler CONFIRMED.
C15_StoreFailureNeverChangesOutcome ==
  \A j \in JobIdx :
    LET id == jobs[j].orderId IN
      venueFailures[id] = 0 =>
        /\ ~FailedPublished(id)
        /\ dbStatus[id] # FAILED
        /\ jobs[j].attemptsMade = 0
        /\ JobDone(j) => (jobs[j].state = "completed" /\ dbStatus[id] = CONFIRMED)

\* the scheduler's view of a job, a retry being queued whether its backoff is
\* still running or not
JobPhase(j) ==
  IF jobs[j].state \in {"delayed", "waiting"} THEN "queued" ELSE jobs[j].state

\* C16: the pipeline does not depend on subscriber health: two orders whose
\* attempts got the same answers from the store and the venues are at the same
\* point of executeOrder, have published the same stage events with the same
\* content and have the same stored and terminal status, whatever the state of
\* their subscribers (registered and open, closed, throwing on send, absent).
C16_PipelineIndependentOfSubscriber ==
  \A j1, j2 \in JobIdx :
    LET id1 == jobs[j1].orderId
        id2 == jobs[j2].orderId
    IN  (/\ execCount[id1] >= 1
         /\ execCount[id1] = execCount[id2]
         /\ jobs[j1].inputs = jobs[j2].inputs)
          => /\ jobs[j1].pc = jobs[j2].pc
             /\ JobPhase(j1) = JobPhase(j2)
             /\ attemptEvents[id1] = attemptEvents[id2]
             /\ jobs[j1].bestQuote = jobs[j2].bestQuote
             /\ jobs[j1].result = jobs[j2].result
             /\ terminalEvents[id1] = terminalEvents[id2]
             /\ attemptEvents[id1] # <<>> => dbStatus[id1] = dbStatus[id2]

\* C16 witness: two orders went through the same attempt to CONFIRMED, one with
\* its subscriber open throughout, the other with a subscriber that threw on
\* send, was closed or was gone, so that it received less.
C16_Witness ==
  \E j1, j2 \in JobIdx :
    LET id1 == jobs[j1].orderId
        id2 == jobs[j2].orderId
    IN  /\ jobs[j1].state = "completed" /\ jobs[j2].state = "completed"
        /\ jobs[j1].inputs = jobs[j2].inputs
        /\ dbStatus[id1] = CONFIRMED
        /\ Len(delivered[id1]) = 6
        /\ Len(delivered[id2]) < 6
        /\ connections[id1] = "open"
        /\ connections[id2] = "broken"

\* C17: no ROUTING event of an attempt is published before the venue quotes of
\* that attempt are in hand, and every ROUTING event carries the full quote set
\* (one quote per venue) and the selected venue.
C17_RoutingEventCarriesQuotes ==
  \A id \in OrderIds :
    \A k \in DOMAIN attemptEvents[id] :
      attemptEvents[id][k].status = ROUTING =>
        /\ Len(attemptEvents[id][k].data.quotes) = 2
        /\ attemptEvents[id][k].data.selectedDex \in {RAYDIUM, METEORA}

\* C18: for an order admitted when no venue call fails and the store works, the
\* subscriber receives exactly the status events pending, routing (carrying 2
\* quotes), building, submitted, confirmed, in that order, each once, and the
\* confirmed event carries an executed price > 0 and a non-empty settlement
\* reference. Stated on the job having left the scheduler, the socket open.
C18_HappyPathEventSequence ==
  \A j \in JobIdx :
    LET id == jobs[j].orderId
        d == delivered[id]
    IN  (/\ JobDone(j)
         /\ storeFaults = 0
         /\ venueFailures[id] = 0
         /\ connections[id] = "open")
          => /\ [i \in DOMAIN d |-> d[i].status] =
                  <<PENDING, ROUTING, BUILDING, SUBMITTED, CONFIRMED>>
             /\ Len(d[2].data.quotes) = 2
             /\ d[5].data.executedPrice > 0
             /\ d[5].data.txHash # ""

\* C19: every FAILED event carries an error text annotated with the number of
\* pipeline attempts actually made for the order.
C19_FailedAnnotatedWithAttemptsMade ==
  \A id \in OrderIds :
    \A i \in DOMAIN terminalEvents[id] :
      terminalEvents[id][i].status = FAILED =>
        terminalEvents[id][i].data.errorAttempts = execCount[id]

\* C19 witness: FAILED was published for an order after more than one attempt.
C19_Witness ==
  \E id \in OrderIds : FailedPublished(id) /\ execCount[id] >= 2

\* C20: for every non-empty list of quotes selectBestDex returns an element of
\* the list whose amountOut is the maximum amountOut of the list; the quotes the
\* venues produce have amountOut = price * (1 - fee), so on a list from
\* getAllQuotes the result maximizes price * (1 - fee).
C20_SelectBestDexMaximizesAmountOut ==
  routerBest # NoQuote =>
    /\ \E i \in DOMAIN routerQuotes : routerQuotes[i] = routerBest
    /\ \A i \in DOMAIN routerQuotes : routerQuotes[i].amountOut <= routerBest.amountOut
    /\ routerQuotes \in VenueQuoteLists =>
         \A i \in DOMAIN routerQuotes :
           /\ routerQuotes[i].amountOut =
                routerQuotes[i].price * (1000 - routerQuotes[i].fee)
           /\ routerQuotes[i].price * (1000 - routerQuotes[i].fee)
                <= routerBest.price * (1000 - routerBest.fee)

\* C20 witness: selectBestDex was called on three quotes and returned the
\* second, which offers more than the first and no less than the third.
C20_Witness ==
  /\ Len(routerQuotes) = 3
  /\ routerBest = routerQuotes[2]
  /\ routerQuotes[2].amountOut > routerQuotes[1].amountOut
  /\ routerQuotes[2].amountOut >= routerQuotes[3].amountOut
  /\ routerQuotes[2] # routerQuotes[3]

\* ---------------------------------------------------------------- C21
\* the first position of the list whose amountOut no other quote exceeds
FirstBestIndex(quotes) ==
  CHOOSE i \in DOMAIN quotes :
    /\ \A k \in DOMAIN quotes : quotes[k].amountOut <= quotes[i].amountOut
    /\ \A k \in 1..(i - 1) : quotes[k].amountOut < quotes[i].amountOut

\* C21: selectBestDex breaks ties by list order: the quote it returns is the
\* first of the quotes with the maximal amountOut; on a [Raydium, Meteora]
\* list, the shape getAllQuotes returns, equal amounts select Raydium; and a
\* second call on the same list returns the same quote as the first.
C21_SelectBestDexTieBreaksByListOrder ==
  /\ [](routerBest # NoQuote =>
         /\ routerBest = routerQuotes[FirstBestIndex(routerQuotes)]
         /\ (/\ Len(routerQuotes) = 2
             /\ routerQuotes[1].dex = RAYDIUM
             /\ routerQuotes[2].dex = METEORA
             /\ routerQuotes[1].amountOut = routerQuotes[2].amountOut)
              => routerBest.dex = RAYDIUM)
  /\ [][routerCalls >= 1 /\ routerCalls' > routerCalls
          => routerBest' = routerBest]_vars

\* selectBestDex was called twice on a [Raydium, Meteora] list of equal amounts
C21_Witness ==
  /\ routerCalls = 2
  /\ Len(routerQuotes) = 2
  /\ routerQuotes[1].dex = RAYDIUM
  /\ routerQuotes[2].dex = METEORA
  /\ routerQuotes[1].amountOut = routerQuotes[2].amountOut
  /\ routerBest = routerQuotes[1]

\* ---------------------------------------------------------------- C22
\* the realized slippage of a call of executeSwap exceeds the order's
\* tolerance: (quoted - executed) / quoted > order.slippage, per mille
RealizedSlippageExceeds(call) ==
  LET quoted   == call.selectedQuote.price * 1000
      executed == call.selectedQuote.price * (1000 - call.slippage)
  IN  (quoted - executed) > call.order.slippage * call.selectedQuote.price

\* C22: executeSwap returns a result only when the realized slippage
\* (quotedPrice - executedPrice) / quotedPrice is at most order.slippage; when
\* it is greater the call fails with 'Slippage tolerance exceeded' and
\* produces no result and no txHash.
C22_SwapSucceedsOnlyWithinTolerance ==
  swapReturn # NotCalled =>
    /\ swapReturn.error = "" =>
          /\ ~RealizedSlippageExceeds(swapCall)
          /\ (swapCall.selectedQuote.price * 1000 - swapReturn.result.executedPrice)
                <= swapCall.order.slippage * swapCall.selectedQuote.price
    /\ RealizedSlippageExceeds(swapCall) =>
          /\ swapReturn.error = SlippageExceeded
          /\ swapReturn.result = NoResult
          /\ swapReturn.result.txHash = ""

\* a call whose slippage draw of 6 per mille exceeded a tolerance of 5 per
\* mille and failed with the slippage error
C22_Witness ==
  /\ swapCall.called
  /\ swapCall.order.slippage = 5
  /\ swapCall.slippage = 6
  /\ swapReturn.error = SlippageExceeded
  /\ swapReturn.result = NoResult

\* ---------------------------------------------------------------- C23
\* C23: getAllQuotes has both venue requests under way before either has
\* responded; it resolves only when both have responded, with exactly one
\* quote per venue, Raydium's first; and it fails as a whole as soon as a
\* venue request has failed, returning no list.
C23_GetAllQuotesConcurrentAllOrNothing ==
  quotesCall.called =>
    /\ quotesCall.raydium.state # "idle" <=> quotesCall.meteora.state # "idle"
    /\ quotesCall.promise = "fulfilled" =>
          /\ quotesCall.raydium.state = "fulfilled"
          /\ quotesCall.meteora.state = "fulfilled"
          /\ quotesReturn = <<quotesCall.raydium.quote, quotesCall.meteora.quote>>
          /\ quotesReturn[1].dex = RAYDIUM
          /\ quotesReturn[2].dex = METEORA
    /\ quotesCall.promise # "fulfilled" => quotesReturn = <<>>
    /\ "rejected" \in {quotesCall.raydium.state, quotesCall.meteora.state} =>
          quotesCall.promise = "rejected"
    /\ (/\ quotesCall.raydium.state = "fulfilled"
        /\ quotesCall.meteora.state = "fulfilled") => quotesCall.promise = "fulfilled"

\* Meteora has responded while Raydium's request, started with it, is still
\* pending, and the call has not resolved
C23_Witness ==
  /\ quotesCall.called
  /\ quotesCall.meteora.state = "fulfilled"
  /\ quotesCall.raydium.state = "pending"
  /\ quotesCall.promise = "pending"
  /\ quotesReturn = <<>>

\* ---------------------------------------------------------------- C24
\* the step is a sendUpdate for this order id
SendUpdateStepFor(id) ==
  /\ wsLastCall'.op = "sendUpdate"
  /\ wsLastCall'.orderId = id

\* C24: an order id has at most one subscriber, the socket of its latest
\* register call (or none): once register(id, ws2) has followed
\* register(id, ws1), a sendUpdate for id transmits on at most one socket and
\* never on ws1.
C24_NoFanOutAfterReRegister ==
  /\ [](\A id \in OrderIds :
          /\ Cardinality({i \in DOMAIN wsConnections :
                            wsConnections[i].orderId = id}) <= 1
          /\ MapGet(wsConnections, id) \in {NoSocket, wsLatest[id]})
  /\ [][\A id \in OrderIds : SendUpdateStepFor(id) =>
          \A ws \in Sockets : wsInbox'[ws] # wsInbox[ws] => ws = wsLatest[id]]_vars

\* ws1 then ws2 were registered for o1; an update for o1 was transmitted on
\* ws2 and nothing on ws1, which is still open
C24_Witness ==
  /\ "o1" \in wsHandlers["ws1"]
  /\ wsLatest["o1"] = "ws2"
  /\ wsReadyState["ws1"] = "OPEN"
  /\ wsInbox["ws1"] = <<>>
  /\ wsInbox["ws2"] = <<[orderId |-> "o1", status |-> PENDING]>>
  /\ wsLastCall.op = "sendUpdate"

\* ---------------------------------------------------------------- C25
\* C25: a sendUpdate for an order id with no registered socket, or whose
\* socket is not OPEN, transmits nothing and raises no error; an exception
\* thrown by the socket's send is caught, so no sendUpdate ever raises; and
\* sendUpdate never changes the subscriber map.
C25_SendUpdateNeverRaisesNorUnregisters ==
  [][\A id \in OrderIds : SendUpdateStepFor(id) =>
       LET ws == MapGet(wsConnections, id) IN
         /\ (ws = NoSocket \/ wsReadyState[ws] # "OPEN") => wsInbox' = wsInbox
         /\ ~wsLastCall'.raised
         /\ wsConnections' = wsConnections]_vars

\* a sendUpdate reached an open, registered socket and nothing was
\* transmitted: its send threw, and the call returned normally
C25_Witness ==
  /\ wsLastCall.op = "sendUpdate"
  /\ wsLastCall.ws = "ws1"
  /\ ~wsLastCall.raised
  /\ wsReadyState["ws1"] = "OPEN"
  /\ MapGet(wsConnections, wsLastCall.orderId) = "ws1"
  /\ \A ws \in Sockets : wsInbox[ws] = <<>>

\* ---------------------------------------------------------------- C26
\* the step is the socket emitting 'close' or 'error'
SocketEventStep(ws) ==
  /\ wsLastCall'.op \in {"on close", "on error"}
  /\ wsLastCall'.ws = ws

\* getConnectionCount is the number of distinct registered order ids, and an
\* update for an unregistered order id is dropped
CountAndDrop ==
  /\ [](GetConnectionCount = Cardinality(MapKeys(wsConnections)))
  /\ [][\A id \in OrderIds :
          SendUpdateStepFor(id) /\ MapGet(wsConnections, id) = NoSocket
            => wsInbox' = wsInbox]_vars

\* the order ids whose subscriber is this socket
SubscribedIds(ws) == {id \in OrderIds : MapGet(wsConnections, id) = ws}

\* C26: when a socket that is the subscriber of an order id emits 'close' or
\* 'error', that order id is no longer registered and getConnectionCount has
\* decreased by one; updates for an unregistered order id are dropped; and
\* getConnectionCount always equals the number of distinct registered ids.
C26_SocketEventUnregistersItsOrderId ==
  /\ CountAndDrop
  /\ [][\A ws \in Sockets, id \in OrderIds :
          (SocketEventStep(ws) /\ SubscribedIds(ws) = {id}) =>
            /\ MapGet(wsConnections', id) = NoSocket
            /\ GetConnectionCount' = GetConnectionCount - 1]_vars

\* ---------------------------------------------------------------- C27
\* C27: close(orderId) leaves that order id without a subscriber and every
\* other order id with the subscriber it had; on an order id without a
\* subscriber it changes nothing; it never raises; and after closeAll() no
\* order id has a subscriber.
C27_CloseRemovesOnlyThatSubscriber ==
  [][/\ \A id \in OrderIds :
          (wsLastCall'.op = "close" /\ wsLastCall'.orderId = id) =>
            /\ MapGet(wsConnections', id) = NoSocket
            /\ \A other \in OrderIds \ {id} :
                  MapGet(wsConnections', other) = MapGet(wsConnections, other)
            /\ MapGet(wsConnections, id) = NoSocket =>
                  /\ wsConnections' = wsConnections
                  /\ wsReadyState' = wsReadyState
            /\ ~wsLastCall'.raised
     /\ wsLastCall'.op = "closeAll" =>
          /\ GetConnectionCount' = 0
          /\ \A id \in OrderIds : MapGet(wsConnections', id) = NoSocket]_vars

\* close("o1") closed ws1, which is also the subscriber of o2, and o2 is
\* still registered
C27_Witness ==
  /\ wsLastCall = ManagerCall("close", "o1", "ws1", FALSE)
  /\ MapGet(wsConnections, "o1") = NoSocket
  /\ MapGet(wsConnections, "o2") = "ws1"
  /\ wsReadyState["ws1"] = "CLOSING"

\* ---------------------------------------------------------------- C29
\* how often a message occurs in a list of errors
Occurrences(errors, message) ==
  Cardinality({i \in DOMAIN errors : errors[i] = message})

\* the list holds the message once if the rule is violated, else not at all
OneErrorIff(errors, message, violated) ==
  Occurrences(errors, message) = IF violated THEN 1 ELSE 0

\* a token field that is missing (absent or empty) or longer than 44
BadToken(field) == ~field.defined \/ field.length = 0 \/ field.length > 44

\* C29: validateOrder returns valid = true exactly when its error list is
\* empty, and the list holds exactly one error per violated rule and nothing
\* else: tokenIn missing or longer than 44 characters, tokenOut likewise,
\* tokenIn equal to tokenOut, amountIn missing or <= 0, slippage present but
\* outside [0, 0.5]; an absent slippage yields no error.
C29_ValidateOrderOneErrorPerRule ==
  validateReturn # NoCall =>
    LET order  == validateCall.order
        errors == validateReturn.errors
    IN  /\ validateReturn.valid <=> errors = <<>>
        /\ OneErrorIff(errors, "Invalid tokenIn address", BadToken(order.tokenIn))
        /\ OneErrorIff(errors, "Invalid tokenOut address", BadToken(order.tokenOut))
        /\ OneErrorIff(errors, "tokenIn and tokenOut must be different",
                       order.tokenIn = order.tokenOut)
        /\ OneErrorIff(errors, "amountIn must be greater than 0",
                       ~order.amountIn.defined \/ order.amountIn.value <= 0)
        /\ OneErrorIff(errors, "Slippage must be between 0 and 0.5 (0-50%)",
                       /\ order.slippage.defined
                       /\ (order.slippage.value < 0 \/ order.slippage.value > 500))
        /\ Len(errors) =
             Cardinality({rule \in 1..5 :
               \/ rule = 1 /\ BadToken(order.tokenIn)
               \/ rule = 2 /\ BadToken(order.tokenOut)
               \/ rule = 3 /\ order.tokenIn = order.tokenOut
               \/ rule = 4 /\ (~order.amountIn.defined \/ order.amountIn.value <= 0)
               \/ rule = 5 /\ order.slippage.defined
                           /\ (order.slippage.value < 0 \/ order.slippage.value > 500)})

\* an order that violates all five rules got five errors; its 45-character
\* tokens are equal, its amount is 0 and its slippage is 0.501
C29_Witness ==
  /\ validateCall.called
  /\ validateCall.order.tokenIn.length = 45
  /\ validateCall.order.tokenOut = validateCall.order.tokenIn
  /\ validateCall.order.amountIn = Num(0)
  /\ validateCall.order.slippage = Num(501)
  /\ validateReturn # NoCall
  /\ ~validateReturn.valid
  /\ Len(validateReturn.errors) = 5

\* ---------------------------------------------------------------- C28
\* the body satisfies every rule of the schema and of validateOrder
BodyValid(body) ==
  /\ body.type \in {"market", "limit", "sniper"}
  /\ ~BadToken(body.tokenIn)
  /\ ~BadToken(body.tokenOut)
  /\ body.tokenIn # body.tokenOut
  /\ body.amountIn.defined /\ body.amountIn.value > 0
  /\ body.slippage.defined => (body.slippage.value >= 0 /\ body.slippage.value <= 500)

\* C28: a request whose body fails validation (the schema or validateOrder)
\* never enters the pipeline: once it has been handled, and for ever after,
\* the store holds no order, no subscriber is registered, the queue holds no
\* job and no status event has been published; its socket has received one
\* error message and has been closed.
C28_InvalidRequestNeverEntersPipeline ==
  (execRequest.state # "none" /\ ~BodyValid(execRequest.body)) =>
    /\ execRequest.state \in {"received", "rejected"}
    /\ \A id \in OrderIds :
         /\ dbStatus[id] = "none"
         /\ connections[id] = "none"
         /\ attemptEvents[id] = <<>>
         /\ terminalEvents[id] = <<>>
         /\ delivered[id] = <<>>
         /\ execCount[id] = 0
    /\ jobs = <<>>
    /\ waitQ = <<>>
    /\ execRequest.state = "rejected" =>
         /\ execSocket.closed
         /\ Len(execSocket.sent) = 1
         /\ execSocket.sent[1] \in {"Validation failed", "Order validation failed"}

\* a body that passes the schema and fails validateOrder (tokenIn equal to
\* tokenOut) was rejected
C28_Witness ==
  /\ execRequest.state = "rejected"
  /\ execRequest.body.tokenIn = execRequest.body.tokenOut
  /\ execSocket.sent = <<"Order validation failed">>
  /\ execSocket.closed
  /\ jobs = <<>>

\* ---------------------------------------------------------------- C30
\* the edges of the status graph; "none" -> PENDING is the creation of the row
StatusEdges ==
  {<<"none", PENDING>>, <<PENDING, ROUTING>>, <<ROUTING, BUILDING>>,
   <<BUILDING, SUBMITTED>>, <<SUBMITTED, CONFIRMED>>,
   <<ROUTING, FAILED>>, <<BUILDING, FAILED>>, <<SUBMITTED, FAILED>>}

\* C30: the stored status of an order changes only along PENDING -> ROUTING
\* -> BUILDING -> SUBMITTED -> CONFIRMED and ROUTING | BUILDING | SUBMITTED
\* -> FAILED: never backward, never skipping a status, never from PENDING to
\* FAILED, and never out of CONFIRMED or FAILED.
C30_StoredStatusFollowsTransitionGraph ==
  [][\A id \in OrderIds :
       dbStatus'[id] # dbStatus[id] => <<dbStatus[id], dbStatus'[id]>> \in StatusEdges]_vars

\* ---------------------------------------------------------------- C31
\* job j is in the given scheduler state
JobIn(j, state) == j \in JobIdx /\ jobs[j].state = state

\* C31: between pause() and resume() no waiting job starts an attempt; the
\* attempts that are running when the queue is paused go on to their outcome
\* (they end, whether or not the queue is ever resumed); and when the queue is
\* not paused (initially and after resume()) a waiting job is started, unless
\* the queue is paused again or closed first.
C31_PauseHoldsWaitingJobsOnly ==
  /\ [][queuePaused => execCount' = execCount]_vars
  /\ \A j \in 1..Cardinality(OrderIds) :
       (queuePaused /\ JobIn(j, "active")) ~> ~JobIn(j, "active")
  /\ \A j \in 1..Cardinality(OrderIds) :
       (~queuePaused /\ ~closeCalled /\ JobIn(j, "waiting"))
         ~> (queuePaused \/ closeCalled \/ ~JobIn(j, "waiting"))

\* the queue is paused, an earlier job has run, and the head of the wait list
\* is held back by the pause alone: a worker slot is free and the limiter
\* allows a start
C31_Witness ==
  /\ queuePaused
  /\ waitQ # <<>>
  /\ WorkerSlotFree
  /\ LimiterAllows
  /\ \E j \in JobIdx : JobDone(j)

\* ---------------------------------------------------------------- C32
\* C32: close() is an orderly drain.  After close() is called no attempt
\* starts; the attempts in flight run to their outcome; the queue, the queue
\* events and the Redis connection are released only after the worker has
\* stopped, so no attempt is running when any of them is released; and
\* close() completes.
C32_CloseDrainsThenReleases ==
  /\ [][closeCalled => execCount' = execCount]_vars
  /\ [](\A i \in DOMAIN closed :
          closed[i] # "worker" =>
            /\ ActiveJobs = {}
            /\ closed[1] = "worker")
  /\ \A j \in 1..Cardinality(OrderIds) :
       (closeCalled /\ JobIn(j, "active")) ~> ~JobIn(j, "active")
  /\ closeCalled ~> (closed = <<"worker", "queue", "queueEvents", "connection">>)

\* close() has completed after one order ran; the order admitted behind it is
\* still in the wait list and was never started
C32_Witness ==
  /\ closed = <<"worker", "queue", "queueEvents", "connection">>
  /\ Len(jobs) = 2
  /\ jobs[1].state = "completed"
  /\ jobs[2].state = "waiting"
  /\ execCount[jobs[2].orderId] = 0

\* ---------------------------------------------------------------- C33
\* C33: admission is FIFO.  jobs lists the jobs in the order they were
\* admitted; if A was admitted before B, the first attempt of B has not
\* started as long as the first attempt of A has not started (retries do not
\* matter: a first attempt precedes every retry).
C33_FirstAttemptsStartInAdmissionOrder ==
  \A a, b \in JobIdx :
    (a < b /\ execCount[jobs[b].orderId] >= 1) => execCount[jobs[a].orderId] >= 1

\* with one worker slot, the order admitted second is in its first attempt
\* after the first attempt of the order admitted first has ended
C33_Witness ==
  /\ Len(jobs) = 2
  /\ maxConcurrentOrders = 1
  /\ jobs[1].state = "completed"
  /\ jobs[1].attemptsMade = 0
  /\ execCount[jobs[1].orderId] = 1
  /\ jobs[2].state = "active"
  /\ jobs[2].attemptsMade = 0
  /\ execCount[jobs[2].orderId] = 1

\* ---------------------------------------------------------------- C34
\* C34: getMetrics reports terminal counts that agree with the orders'
\* outcomes.  A job that has left the scheduler is counted under failed
\* exactly when its order's terminal status is FAILED and under completed
\* exactly when it is CONFIRMED, and every admitted job is in exactly one of
\* waiting, active, delayed, completed and failed.
C34_MetricsAgreeWithOrderOutcomes ==
  LET done(status) == {j \in JobIdx : JobDone(j) /\ dbStatus[jobs[j].orderId] = status}
      delayed == Cardinality({j \in JobIdx : jobs[j].state = "delayed"})
  IN  /\ GetMetrics.failed = Cardinality(done(FAILED))
      /\ GetMetrics.completed = Cardinality(done(CONFIRMED))
      /\ \A j \in JobIdx : jobs[j].state = "failed" <=> j \in done(FAILED)
      /\ \A j \in JobIdx : jobs[j].state = "completed" <=> j \in done(CONFIRMED)
      /\ GetMetrics.waiting + GetMetrics.active + delayed
            + GetMetrics.completed + GetMetrics.failed = Len(jobs)

\* ---------------------------------------------------------------- C35
\* C35: sendUpdate delivers to the most recently registered socket of an order
\* whenever that socket is open.  sendUpdate looks the socket up in
\* connections, so this is: while the socket registered last for an order id
\* is OPEN it is the one connections holds for the id; in particular the
\* 'close' or 'error' of a socket that was replaced does not unregister its
\* replacement.
C35_LatestOpenSocketStaysSubscribed ==
  \A id \in OrderIds :
    (wsLatest[id] # NoSocket /\ wsReadyState[wsLatest[id]] = "OPEN") =>
      MapGet(wsConnections, id) = wsLatest[id]

C37_SettledOrderNeverRetriedNorFailed ==
  \A j \in JobIdx :
    jobs[j].result # NoResult =>
      /\ jobs[j].state \in {"active", "completed"}
      /\ dbStatus[jobs[j].orderId] # FAILED
      /\ ~FailedPublished(jobs[j].orderId)

\* ---------------------------------------------------------------- C38
\* C38: within one attempt the routing decision is stable.  The selectedDex of
\* the attempt's BUILDING, SUBMITTED and CONFIRMED events is the venue of the
\* quote selectBestDex picked from the quotes of the attempt's ROUTING event,
\* and executeSwap was called with exactly that quote: its result carries the
\* quote's venue and an executedPrice derived from the quote's price.
C38_RoutingDecisionStableWithinAttempt ==
  \A j \in JobIdx :
    LET events == attemptEvents[jobs[j].orderId]
        routed == {r \in DOMAIN events :
                     events[r].status = ROUTING /\ events[r].data.quotes # <<>>}
    IN  /\ \A i \in DOMAIN events :
              events[i].status \in {BUILDING, SUBMITTED, CONFIRMED} =>
                \E r \in routed :
                  /\ r < i
                  /\ events[r].data.selectedDex =
                       SelectBestDex(events[r].data.quotes).dex
                  /\ events[i].data.selectedDex = events[r].data.selectedDex
        /\ jobs[j].result # NoResult =>
              \E r \in routed, slippage \in SwapSlippageRange :
                jobs[j].result =
                  ExecutionResult(SelectBestDex(events[r].data.quotes), slippage)
        /\ Cardinality(routed) <= 1

\* an attempt that selected Meteora although Raydium is first in the quote
\* list, published it in ROUTING, BUILDING, SUBMITTED and CONFIRMED and
\* settled on Meteora
C38_Witness ==
  \E j \in JobIdx :
    LET events == attemptEvents[jobs[j].orderId] IN
      /\ jobs[j].state = "completed"
      /\ jobs[j].result.dex = METEORA
      /\ jobs[j].quotes[1].dex = RAYDIUM
      /\ Len(events) = 6
      /\ events[3].status = ROUTING
      /\ events[3].data.selectedDex = METEORA
      /\ events[4].status = BUILDING
      /\ events[5].status = SUBMITTED
      /\ events[6].status = CONFIRMED
      /\ events[6].data.selectedDex = METEORA

\* ---------------------------------------------------------------- C39
\* C39: the retry count stored for an order equals the number of retries
\* scheduled for it.  Between attempts and after the last one, retry_count is
\* the number of failed attempts that were followed by another attempt (the
\* retries already run plus the one the job is waiting for), and it never
\* exceeds retryMaxAttempts - 1.
C39_RetryCountEqualsRetriesScheduled ==
  \A j \in JobIdx :
    LET id == jobs[j].orderId
        scheduled == IF execCount[id] = 0 THEN 0
                     ELSE execCount[id] - 1
                            + (IF jobs[j].state \in {"delayed", "waiting"} THEN 1 ELSE 0)
    IN  /\ dbRetryCount[id] <= retryMaxAttempts - 1
        /\ jobs[j].state # "active" => dbRetryCount[id] = scheduled

\* ---------------------------------------------------------------- C40
\* C40: the slippage a settlement realizes lies between 0% and 1% of the
\* quoted price: executedPrice is at most the quoted price and at least 99% of
\* it, and amountOut = executedPrice * (1 - fee).  So for an order whose
\* tolerance is at least 0.01 executeSwap never fails with the slippage error:
\* it fails exactly when the congestion roll fails, with the congestion error.
C40_SlippageBoundedToOnePercent ==
  swapReturn # NotCalled =>
    LET quote    == swapCall.selectedQuote
        executed == ExecutionResult(quote, swapCall.slippage).executedPrice
    IN  /\ executed <= quote.price * 1000
        /\ executed >= quote.price * 990
        /\ ActualSlippage(quote, executed) \in 0..10
        /\ swapReturn.error = "" =>
              /\ swapReturn.result.executedPrice = executed
              /\ swapReturn.result.amountOut = executed * (1000 - quote.fee)
        /\ swapCall.order.slippage >= 10 =>
              /\ swapReturn.error # SlippageExceeded
              /\ swapReturn.error \in {"", NetworkCongestion}
              /\ swapReturn.error = NetworkCongestion <=> swapCall.congestion

\* a call with a tolerance of exactly 1% whose settlement slipped by 0.9% and
\* returned a result, the fee taken off the executed price
C40_Witness ==
  /\ swapCall.called
  /\ swapCall.order.slippage = 10
  /\ swapCall.slippage = 9
  /\ swapCall.selectedQuote.dex = RAYDIUM
  /\ swapReturn.error = ""
  /\ swapReturn.result.executedPrice = 98 * 991
  /\ swapReturn.result.amountOut = 98 * 991 * 997

====
